---- MODULE Spec2Model ----
(***************************************************************************)
(* help.ai server: the request handlers of server/routes.ts,               *)
(* server/api/chat.ts and server/api/image.ts over the storage layer       *)
(* (MemStorage of server/storage.ts, DatabaseStorage of its Postgres       *)
(* variant).  A request is a sequence of steps; one step is one storage    *)
(* access together with the handler's local code up to the next access,    *)
(* which is where the single-threaded runtime may switch to another        *)
(* request.                                                                *)
(***************************************************************************)
EXTENDS Integers, Sequences, FiniteSets, TLC

VARIABLES
    hook,                   \* the state of useChat in the browser: its messages
    backend,                \* "mem" (MemStorage) or "db" (DatabaseStorage)
    env,                    \* process.env: which fallback credentials are set
    users,                  \* users table: id -> [memory: reference or 0]
    memHeap,                \* memory blobs: reference -> blob
    conversations,          \* conversations table: id -> row
    messages,               \* messages table: id -> row
    apiKeys,                \* api_keys table: id -> row
    conversationIdCounter,
    messageIdCounter,
    apiKeyIdCounter,
    served,                 \* requests accepted so far
    reqs                    \* the requests in flight, one per slot

vars == << hook, backend, env, users, memHeap, conversations, messages, apiKeys,
           conversationIdCounter, messageIdCounter, apiKeyIdCounter, served, reqs >>

store == << users, memHeap, conversations, messages, apiKeys,
            conversationIdCounter, messageIdCounter, apiKeyIdCounter >>

\* new Date(): time passes with every row created
clock == conversationIdCounter + messageIdCounter

(***************************************************************************)
(* Bounds of the model.                                                    *)
(***************************************************************************)
MaxRequests == 2        \* requests the server accepts
MaxStored == 10         \* messages a conversation holds at the start
MaxTurns == 6           \* chat turns in a run of SpecHistory

(***************************************************************************)
(* Program constants.                                                      *)
(***************************************************************************)
HistoryLimit == 10      \* conversationHistory.slice(-10)
ContentLimit == 8000    \* msg.content.length > 8000
MarkerLen == 37         \* "... [content truncated due to length]".length
MemoryLimit == 10       \* [...conversations, currentContext].slice(-10)
PromptMemoryLimit == 5  \* userMemoryObj.conversations.slice(-5)
TopicLimit == 100       \* message.substring(0, 100)
ResponseLimit == 200    \* aiResponse.substring(0, 200)

Slots == {1, 2}         \* requests the server handles at the same time
UserIds == {1, 2}       \* the registered users

(***************************************************************************)
(* Strings.  A string is the prefix of length len of the text named txt,   *)
(* followed by the truncation marker when marked.                          *)
(***************************************************************************)
Min(a, b) == IF a < b THEN a ELSE b

Str(t, n) == [txt |-> IF n = 0 THEN "" ELSE t, len |-> n, marked |-> FALSE]

EmptyStr == Str("", 0)

Length(s) == s.len + (IF s.marked THEN MarkerLen ELSE 0)

\* s.substring(0, n) of an unmarked string
Substring(s, n) == Str(s.txt, Min(s.len, n))

(***************************************************************************)
(* Rows and the read operations of the storage layer.                      *)
(***************************************************************************)
NoConv == [id |-> 0, userId |-> 0, createdAt |-> 0, updatedAt |-> 0]

NoMsg == [id |-> 0, conversationId |-> 0, content |-> EmptyStr, role |-> "none",
          timestamp |-> 0]

NoKeys == [id |-> 0, userId |-> 0, togetherApiKey |-> "", duckduckgoApiKey |-> ""]

\* a memory blob as the chat handler writes it: { conversations: [...] }
MemoryObject(convs) == [kind |-> "object", conversations |-> convs]

\* users.password of a user without one, and the password field that a
\* response body does not have
NoHash == [alg |-> "none", of |-> "", salt |-> ""]

NoUser == [id |-> 0, memory |-> 0, username |-> "", email |-> "", password |-> NoHash]

getUser(id) == IF id \in DOMAIN users THEN users[id] ELSE NoUser

\* a lookup that answers with conversation 1 for an id that is not stored
getConversationLenient(id) ==
    IF id \in DOMAIN conversations THEN conversations[id]
    ELSE IF 1 \in DOMAIN conversations THEN conversations[1] ELSE NoConv

getConversation(id) ==
    IF id \in DOMAIN conversations THEN conversations[id] ELSE NoConv

getMessage(id) == IF id \in DOMAIN messages THEN messages[id] ELSE NoMsg

\* a.timestamp - b.timestamp < 0, the sort being stable over insertion order
Before(a, b) ==
    \/ messages[a].timestamp < messages[b].timestamp
    \/ messages[a].timestamp = messages[b].timestamp /\ a < b

RECURSIVE SortByTimestamp(_)
SortByTimestamp(ids) ==
    IF ids = {} THEN << >>
    ELSE LET first == CHOOSE a \in ids : \A b \in ids \ {a} : Before(a, b)
         IN  << messages[first] >> \o SortByTimestamp(ids \ {first})

getMessagesByConversationId(cid) ==
    SortByTimestamp({ m \in DOMAIN messages : messages[m].conversationId = cid })

\* the rows getApiKeysByUserId may return: MemStorage finds the first row of
\* the user, the database returns the first row of an unordered SELECT
getApiKeysByUserId(uid) ==
    LET rows == { k \in DOMAIN apiKeys : apiKeys[k].userId = uid }
    IN  IF rows = {} THEN { NoKeys }
        ELSE IF backend = "mem"
             THEN { apiKeys[CHOOSE k \in rows : \A j \in rows : k <= j] }
             ELSE { apiKeys[k] : k \in rows }

(***************************************************************************)
(* The write operations of the storage layer, as conjuncts over the        *)
(* primed tables.                                                          *)
(***************************************************************************)
NewMessage(cid, content, role) ==
    [id |-> messageIdCounter, conversationId |-> cid, content |-> content,
     role |-> role, timestamp |-> clock]

\* a createMessage that leaves updatedAt alone
TouchNothing(cid, now) == conversations

\* conversation.updatedAt = now, when the conversation exists
Touch(cid, now) ==
    IF cid \in DOMAIN conversations
    THEN [conversations EXCEPT ![cid].updatedAt = now]
    ELSE conversations

\* MemStorage.createMessage: one synchronous block
MemCreateMessage(cid, content, role) ==
    /\ messages' = messages @@ (messageIdCounter :> NewMessage(cid, content, role))
    /\ messageIdCounter' = messageIdCounter + 1
    /\ conversations' = Touch(cid, clock)

\* the foreign key messages.conversation_id -> conversations.id
ForeignKeyHolds(cid) == cid \in DOMAIN conversations

\* DatabaseStorage.createMessage, first statement: INSERT INTO messages
DbInsertMessage(cid, content, role) ==
    /\ messages' = messages @@ (messageIdCounter :> NewMessage(cid, content, role))
    /\ messageIdCounter' = messageIdCounter + 1
    /\ UNCHANGED conversations

\* DatabaseStorage.createMessage, second statement: updateConversation
DbTouchConversation(cid) ==
    /\ conversations' = Touch(cid, clock)
    /\ UNCHANGED << messages, messageIdCounter >>

\* a deleteConversation that leaves the messages
WithAllMessages(cid) == messages

\* the messages left when those of conversation cid are deleted
WithoutMessagesOf(cid) ==
    [ m \in { k \in DOMAIN messages : messages[k].conversationId # cid } |->
        messages[m] ]

\* the conversations left when cid is deleted
WithoutConversation(cid) ==
    [ c \in DOMAIN conversations \ {cid} |-> conversations[c] ]

(***************************************************************************)
(* Requests.  sess is the user of the session (req.user.id, 0 when there   *)
(* is no session), guest the header x-guest-mode: true.                    *)
(***************************************************************************)
Identities ==
    { [sess |-> u, guest |-> FALSE] : u \in UserIds } \cup
    { [sess |-> 0, guest |-> TRUE], [sess |-> 0, guest |-> FALSE] }

\* the message texts a client sends
Msgs == { Str("hello", 5) }

\* the answer of the completion API, when it gives one
AiReplies == { Str("answer", 250) }

\* what the completion API may do with a request
CompletionOutcomes == { "ok", "http_error", "no_answer" }

\* the conversation ids a client names: the conversation of user 1, and the
\* one that the next POST /api/conversations creates
ConvIds == {1, 3}

IdleReq ==
    [pc |-> "idle", kind |-> "none", sess |-> 0, guest |-> FALSE, conv |-> 0,
     msg |-> EmptyStr, userMsg |-> NoMsg, asstMsg |-> NoMsg, history |-> << >>,
     promptMemory |-> 0, search |-> "none", webSearch |-> FALSE, calls |-> 0, completion |-> "none",
     aiResponse |-> EmptyStr,
     memRef |-> 0, memFailed |-> FALSE, status |-> 0, error |-> "",
     foundConv |-> 0, found |-> << >>,
     keyBody |-> [togetherApiKey |-> "", duckduckgoApiKey |-> ""],
     keyFound |-> FALSE,
     has |-> [hasTogetherApiKey |-> "", hasDuckduckgoApiKey |-> ""],
     form |-> [username |-> "", email |-> "", password |-> ""],
     dupName |-> FALSE, dupEmail |-> FALSE,
     userBody |-> [id |-> 0, username |-> "", email |-> "", hasPassword |-> FALSE,
                   password |-> NoHash],
     session |-> 0,
     credential |-> "",
     searchStatus |-> 0,
     listed |-> {}]

NewReq(kind, ident, cid, msg) ==
    [IdleReq EXCEPT !.kind = kind, !.sess = ident.sess, !.guest = ident.guest,
                    !.conv = cid, !.msg = msg]

\* a slot is free before its first request and after an answer
Free(r) == reqs[r].pc \in {"idle", "done"}

\* the server accepts a request into the first free slot, up to budget
\* requests in a run
AcceptUpTo(r, budget) ==
    /\ Free(r)
    /\ \A other \in Slots : other < r => ~Free(other)
    /\ served < budget
    /\ served' = served + 1

Accept(r) == AcceptUpTo(r, MaxRequests)

\* res.status(st).json({ message }): the handler returns, its locals are gone
Reply(q, st, err) ==
    [IdleReq EXCEPT !.pc = "done", !.kind = q.kind, !.sess = q.sess,
                    !.guest = q.guest, !.conv = q.conv, !.msg = q.msg,
                    !.calls = q.calls, !.completion = q.completion,
                    !.memFailed = q.memFailed, !.search = q.search,
                    !.status = st, !.error = err]

\* res.json({ userMessage, assistantMessage })
ReplyTurn(q, um, am) ==
    [Reply(q, 200, "") EXCEPT !.userMsg = um, !.asstMsg = am]

\* res.json({ conversation, messages }), res.status(201).json(conversation)
ReplyFound(q, st, cid, msgs) ==
    [Reply(q, st, "") EXCEPT !.foundConv = cid, !.found = msgs]

\* middleware/auth.ts
isAuthenticated(q) == q.sess # 0 \/ q.guest

\* res.status(401).json({ message: "Unauthorized" }), before the handler runs
Unauthorized(q) ==
    Reply([q EXCEPT !.conv = 0, !.msg = EmptyStr], 401, "Unauthorized")

\* a req.user that is there for every request
HasUserAlways(q) == TRUE

\* (req.user as any).id throws a TypeError when there is no session
HasUser(q) == q.sess # 0

\* a handler without the ownership check
AccessNeverDenied(conversation, userId) == FALSE

\* conversation.userId !== userId
AccessDenied(conversation, userId) == conversation.userId # userId

(***************************************************************************)
(* The context-assembly pipeline of POST /api/chat.                        *)
(***************************************************************************)
\* a message text of 101 characters
LongText ==
    "tell me a story tell me a story tell me a story tell me a story tell me a story tell me a story hello"

\* the message texts that clients send
MessageTexts ==
    { "hello", LongText,
      "what is the capital of France",
      "please summarize this",
      "What Is x",
      "what is ",
      "what is \nx",
      "research papers",
      "CAN YOU FIND it",
      "so can you get it",
      "find cats in hats",
      "When did it end",
      "" }

\* the characters of the message texts that clients send
Spell(txt) ==
    CASE txt = "hello" -> << "h", "e", "l", "l", "o" >>
      [] txt = "what is the capital of France" -> << "w", "h", "a", "t", " ",
        "i", "s", " ", "t", "h", "e", " ", "c", "a", "p", "i", "t", "a", "l",
        " ", "o", "f", " ", "F", "r", "a", "n", "c", "e" >>
      [] txt = "please summarize this" -> << "p", "l", "e", "a", "s", "e",
        " ", "s", "u", "m", "m", "a", "r", "i", "z", "e", " ", "t", "h", "i",
        "s" >>
      [] txt = "What Is x" -> << "W", "h", "a", "t", " ", "I", "s", " ",
        "x" >>
      [] txt = "what is " -> << "w", "h", "a", "t", " ", "i", "s", " " >>
      [] txt = "what is \nx" -> << "w", "h", "a", "t", " ", "i", "s", " ",
        "\n", "x" >>
      [] txt = "research papers" -> << "r", "e", "s", "e", "a", "r", "c",
        "h", " ", "p", "a", "p", "e", "r", "s" >>
      [] txt = "CAN YOU FIND it" -> << "C", "A", "N", " ", "Y", "O", "U",
        " ", "F", "I", "N", "D", " ", "i", "t" >>
      [] txt = "so can you get it" -> << "s", "o", " ", "c", "a", "n", " ",
        "y", "o", "u", " ", "g", "e", "t", " ", "i", "t" >>
      [] txt = "find cats in hats" -> << "f", "i", "n", "d", " ", "c", "a",
        "t", "s", " ", "i", "n", " ", "h", "a", "t", "s" >>
      [] txt = "When did it end" -> << "W", "h", "e", "n", " ", "d", "i",
        "d", " ", "i", "t", " ", "e", "n", "d" >>
      [] txt = LongText -> << "t", "e", "l", "l", " ", "m", "e", " ", "a",
        " ", "s", "t", "o", "r", "y", " ", "t", "e", "l", "l", " ", "m", "e",
        " ", "a", " ", "s", "t", "o", "r", "y", " ", "t", "e", "l", "l", " ",
        "m", "e", " ", "a", " ", "s", "t", "o", "r", "y", " ", "t", "e", "l",
        "l", " ", "m", "e", " ", "a", " ", "s", "t", "o", "r", "y", " ", "t",
        "e", "l", "l", " ", "m", "e", " ", "a", " ", "s", "t", "o", "r", "y",
        " ", "t", "e", "l", "l", " ", "m", "e", " ", "a", " ", "s", "t", "o",
        "r", "y", " ", "h", "e", "l", "l", "o" >>
      [] txt = "" -> << >>

Chars(message) == Spell(message.txt)

LowerCase ==
    << "a", "b", "c", "d", "e", "f", "g", "h", "i", "j", "k", "l", "m",
       "n", "o", "p", "q", "r", "s", "t", "u", "v", "w", "x", "y", "z" >>

UpperCase ==
    << "A", "B", "C", "D", "E", "F", "G", "H", "I", "J", "K", "L", "M",
       "N", "O", "P", "Q", "R", "S", "T", "U", "V", "W", "X", "Y", "Z" >>

\* the upper-case letter of each lower-case letter, and the reverse
UpperOf ==
    [ ch \in { LowerCase[i] : i \in 1 .. Len(LowerCase) } |->
        UpperCase[CHOOSE i \in 1 .. Len(LowerCase) : LowerCase[i] = ch] ]

LowerOf ==
    [ ch \in { UpperCase[i] : i \in 1 .. Len(UpperCase) } |->
        LowerCase[CHOOSE i \in 1 .. Len(UpperCase) : UpperCase[i] = ch] ]

\* String.prototype.toUpperCase, one character
ToUpperCase(ch) == IF ch \in DOMAIN UpperOf THEN UpperOf[ch] ELSE ch

\* String.prototype.toLowerCase, one character
ToLowerCase(ch) == IF ch \in DOMAIN LowerOf THEN LowerOf[ch] ELSE ch

\* a pattern without the i flag
CaseSensitive(ch) == ch

\* the i flag: characters are compared after Canonicalize
Canonicalize(ch) == ToUpperCase(ch)

\* the characters that . does not match
LineTerminators == { "\n", "\r" }

\* the parts of a pattern: literal text, a group of alternatives, and .+
Lit(chars) == [any |-> FALSE, alts |-> { chars }]

Alt(alternatives) == [any |-> FALSE, alts |-> alternatives]

AnyChars == [any |-> TRUE, alts |-> {}]

Unanchored(parts) == [anchored |-> FALSE, parts |-> parts]

Anchored(parts) == [anchored |-> TRUE, parts |-> parts]

searchPatterns ==
    << 
       \* /search (?:for|about|on) .+/i
       Unanchored(<< Lit(<< "s", "e", "a", "r", "c", "h", " " >>),
                  Alt({ << "f", "o", "r" >>, << "a", "b", "o", "u", "t" >>, << "o", "n" >> }),
                  Lit(<< " " >>),
                  AnyChars >>),
       \* /find .+ (?:on|about|in) .+/i
       Unanchored(<< Lit(<< "f", "i", "n", "d", " " >>),
                  AnyChars,
                  Lit(<< " " >>),
                  Alt({ << "o", "n" >>, << "a", "b", "o", "u", "t" >>, << "i", "n" >> }),
                  Lit(<< " " >>),
                  AnyChars >>),
       \* /look up .+/i
       Unanchored(<< Lit(<< "l", "o", "o", "k", " ", "u", "p", " " >>),
                  AnyChars >>),
       \* /what is .+/i
       Unanchored(<< Lit(<< "w", "h", "a", "t", " ", "i", "s", " " >>),
                  AnyChars >>),
       \* /who is .+/i
       Unanchored(<< Lit(<< "w", "h", "o", " ", "i", "s", " " >>),
                  AnyChars >>),
       \* /where is .+/i
       Unanchored(<< Lit(<< "w", "h", "e", "r", "e", " ", "i", "s", " " >>),
                  AnyChars >>),
       \* /when (?:did|was|is) .+/i
       Unanchored(<< Lit(<< "w", "h", "e", "n", " " >>),
                  Alt({ << "d", "i", "d" >>, << "w", "a", "s" >>, << "i", "s" >> }),
                  Lit(<< " " >>),
                  AnyChars >>),
       \* /google .+/i
       Unanchored(<< Lit(<< "g", "o", "o", "g", "l", "e", " " >>),
                  AnyChars >>),
       \* /search .+/i
       Unanchored(<< Lit(<< "s", "e", "a", "r", "c", "h", " " >>),
                  AnyChars >>),
       \* /information about .+/i
       Unanchored(<< Lit(<< "i", "n", "f", "o", "r", "m", "a", "t", "i", "o", "n", " ", "a", "b", "o", "u", "t", " " >>),
                  AnyChars >>),
       \* /latest news (?:on|about) .+/i
       Unanchored(<< Lit(<< "l", "a", "t", "e", "s", "t", " ", "n", "e", "w", "s", " " >>),
                  Alt({ << "o", "n" >>, << "a", "b", "o", "u", "t" >> }),
                  Lit(<< " " >>),
                  AnyChars >>),
       \* /current .+/i
       Unanchored(<< Lit(<< "c", "u", "r", "r", "e", "n", "t", " " >>),
                  AnyChars >>),
       \* /recent .+/i
       Unanchored(<< Lit(<< "r", "e", "c", "e", "n", "t", " " >>),
                  AnyChars >>),
       \* /find articles (?:on|about) .+/i
       Unanchored(<< Lit(<< "f", "i", "n", "d", " ", "a", "r", "t", "i", "c", "l", "e", "s", " " >>),
                  Alt({ << "o", "n" >>, << "a", "b", "o", "u", "t" >> }),
                  Lit(<< " " >>),
                  AnyChars >>),
       \* /^can you (search|find|lookup|get) .+/i
       Anchored(<< Lit(<< "c", "a", "n", " ", "y", "o", "u", " " >>),
                  Alt({ << "s", "e", "a", "r", "c", "h" >>, << "f", "i", "n", "d" >>, << "l", "o", "o", "k", "u", "p" >>, << "g", "e", "t" >> }),
                  Lit(<< " " >>),
                  AnyChars >>)
    >>

\* text has the literal lit at position pos
HasAt(text, pos, lit) ==
    /\ pos + Len(lit) - 1 <= Len(text)
    /\ \A j \in 1 .. Len(lit) :
          Canonicalize(text[pos + j - 1]) = Canonicalize(lit[j])

\* the parts from the i-th on match text from position pos on
RECURSIVE MatchFrom(_, _, _, _)
MatchFrom(parts, i, text, pos) ==
    IF i > Len(parts) THEN TRUE
    ELSE IF parts[i].any
    THEN \E last \in pos .. Len(text) :
            /\ \A j \in pos .. last : text[j] \notin LineTerminators
            /\ MatchFrom(parts, i + 1, text, last + 1)
    ELSE \E lit \in parts[i].alts :
            /\ HasAt(text, pos, lit)
            /\ MatchFrom(parts, i + 1, text, pos + Len(lit))

\* pattern.test(text): a match may start anywhere unless the pattern has ^
Test(pattern, text) ==
    \E start \in (IF pattern.anchored THEN {1} ELSE 1 .. Len(text) + 1) :
        MatchFrom(pattern.parts, 1, text, start)

\* patterns.some(pattern => pattern.test(text)), from the i-th pattern on
RECURSIVE SomeFrom(_, _, _)
SomeFrom(patterns, i, text) ==
    IF i > Len(patterns) THEN FALSE
    ELSE IF Test(patterns[i], text) THEN TRUE
    ELSE SomeFrom(patterns, i + 1, text)

\* the answer of searchPatterns.some for each of the message texts
IntentOf == [ t \in MessageTexts |-> SomeFrom(searchPatterns, 1, Spell(t)) ]

detectWebSearchIntent(message) == IntentOf[message.txt]

\* s.slice(-n)
SliceLast(s, n) ==
    IF Len(s) <= n THEN s ELSE SubSeq(s, Len(s) - n + 1, Len(s))

\* msg.content.length > 8000 ? msg.content.substring(0, 8000) + marker : msg.content
TruncateContent(content) ==
    IF Length(content) > ContentLimit
    THEN [txt |-> content.txt, len |-> Min(content.len, ContentLimit), marked |-> TRUE]
    ELSE content

\* a history of the oldest messages, slice(0, 10)
FormatHistoryOldest(conversationHistory) ==
    LET kept == SubSeq(conversationHistory, 1, Min(Len(conversationHistory), HistoryLimit))
    IN  [ i \in 1 .. Len(kept) |->
            [role |-> kept[i].role, content |-> kept[i].content] ]

\* conversationHistory.slice(-10).map(...)
FormatHistory(conversationHistory) ==
    LET kept == SliceLast(conversationHistory, HistoryLimit)
    IN  [ i \in 1 .. Len(kept) |->
            [role |-> kept[i].role, content |-> TruncateContent(kept[i].content)] ]

\* a choice that prefers the key of the environment
TogetherKeyEnvFirst(keyRow) ==
    IF env.together THEN "env-key" ELSE keyRow.togetherApiKey

\* apiKeys?.togetherApiKey || process.env.TOGETHER_AI_API_KEY || ""
TogetherKey(keyRow) ==
    IF keyRow.togetherApiKey # "" THEN keyRow.togetherApiKey
    ELSE IF env.together THEN "env-key" ELSE ""

\* for guest users, only the environment variable
GuestTogetherKey == IF env.together THEN "env-key" ELSE ""

\* the internal call to /api/search carries no session cookie: isAuthenticated
\* lets it pass only in guest mode, and the handler then reads req.user.id
InternalSearchStatus(guest) == IF guest THEN 500 ELSE 401

\* what the internal call may do: answer with that status, or throw (0) when
\* the connection fails
SearchOutcomes(guest) == { InternalSearchStatus(guest), 0 }

\* searchResponse.ok
SearchOk(outcome) == outcome = 200

\* a web search without its try block and without the else branch of
\* searchResponse.ok: a failure reaches the outer catch
AfterSearchUncaught(q, outcome) ==
    IF ~detectWebSearchIntent(q.msg) THEN [q EXCEPT !.pc = "complete"]
    ELSE IF SearchOk(outcome)
    THEN [q EXCEPT !.pc = "complete", !.search = "ok", !.webSearch = TRUE,
                   !.searchStatus = outcome]
    ELSE Reply([q EXCEPT !.search = "failed"], 500, "Failed to process message")

\* the web search: made when shouldPerformWebSearch; webSearchResults is set
\* when searchResponse.ok, a failure is logged, and the completion call is next
AfterSearch(q, outcome) ==
    IF ~detectWebSearchIntent(q.msg) THEN [q EXCEPT !.pc = "complete"]
    ELSE [q EXCEPT !.pc = "complete",
                   !.search = IF SearchOk(outcome) THEN "ok" ELSE "failed",
                   !.webSearch = SearchOk(outcome),
                   !.searchStatus = outcome]

(***************************************************************************)
(* The memory blob.  kind tells what the stored value is: "object" (an     *)
(* object with a conversations array), "noarray" (an object without one),  *)
(* "string" (a JSON string of such an object) or "badstring" (a string     *)
(* that is no JSON).                                                       *)
(***************************************************************************)
\* user?.memory || null
MemoryOf(user) == IF user.memory = 0 THEN 0 ELSE user.memory

\* JSON.parse(memory) throws
JsonParseThrows(blob) == blob.kind = "badstring"

\* Array.isArray(existingMemory.conversations) ? conversations : []
ConversationsOf(blob) ==
    IF blob.kind \in {"object", "string"} THEN blob.conversations ELSE << >>

\* memoryObj = existingMemory: the blob read is the object that gets changed
\* (MemStorage hands out the stored object itself, JSON.parse and the
\* database hand out a copy)
SharesStoredObject(blob) == backend = "mem" /\ blob.kind \in {"object", "noarray"}

\* userMemoryObj.conversations.slice(-5), the entries put into the system prompt
PromptMemory(ref) ==
    IF ref = 0 THEN << >> ELSE SliceLast(ConversationsOf(memHeap[ref]), PromptMemoryLimit)

\* an entry with the whole message and the whole reply
MemoryEntryUncut(message, aiResponse, now) ==
    [lastInteraction |-> now, topic |-> message, response |-> aiResponse]

\* currentContext
MemoryEntry(message, aiResponse, now) ==
    [lastInteraction |-> now, topic |-> Substring(message, TopicLimit),
     response |-> Substring(aiResponse, ResponseLimit)]

\* a memory update without slice(-10)
UpdatedConversationsUncut(existing, entry) == Append(existing, entry)

\* [...memoryObj.conversations, currentContext].slice(-10)
UpdatedConversations(existing, entry) == SliceLast(Append(existing, entry), MemoryLimit)

\* the conversations the memory update starts from
ExistingConversations(ref) ==
    IF ref = 0 \/ JsonParseThrows(memHeap[ref]) THEN << >>
    ELSE ConversationsOf(memHeap[ref])

\* a handler without the isGuestMode branches
StoresMessagesAlways(q) == TRUE

\* the isGuestMode branches of the handler that keep a turn out of storage
StoresMessages(q) == ~q.guest

UpdatesMemory(q) == ~q.guest /\ q.sess # 0

(***************************************************************************)
(* POST /api/chat                                                          *)
(***************************************************************************)
GuestMessage(id, cid, content, role) ==
    [id |-> id, conversationId |-> cid, content |-> content, role |-> role,
     timestamp |-> clock]

\* parse, isGuestMode, getConversation and the 404 and 403 answers; a guest
\* turn touches no storage up to the completion call
ChatAccepted(r, ident, msg, cid, malformed) ==
    /\ LET q == NewReq("chat", ident, cid, msg)
           conversation == getConversation(cid)
           um == GuestMessage(-1, cid, msg, "user")
       IN  \E outcome \in SearchOutcomes(TRUE) :
           reqs' = [reqs EXCEPT ![r] =
             IF ~isAuthenticated(q) THEN Unauthorized(q)
             ELSE IF malformed THEN Reply(q, 400, "Invalid message data")
             ELSE IF q.guest
             THEN IF GuestTogetherKey = ""
                  THEN Reply(q, 400, "No API key available for guest users")
                  ELSE AfterSearch([q EXCEPT !.userMsg = um,
                                             !.history = FormatHistory(<< um >>),
                                             !.credential = GuestTogetherKey],
                                   outcome)
             ELSE IF conversation = NoConv
             THEN Reply(q, 404, "Conversation not found")
             ELSE IF AccessDenied(conversation, q.sess)
             THEN Reply(q, 403, "Access denied")
             ELSE [q EXCEPT !.pc = "store_user"]]
    /\ UNCHANGED << backend, env, store >>

ChatBegin(r, ident, msg, cid, malformed) ==
    /\ Accept(r)
    /\ ChatAccepted(r, ident, msg, cid, malformed)
    /\ UNCHANGED hook

\* storage.createMessage({ conversationId, content: message, role: "user" })
ChatStoreUser(r) ==
    LET q == reqs[r] IN
    /\ q.pc = "store_user"
    /\ IF backend = "mem"
       THEN /\ MemCreateMessage(q.conv, q.msg, "user")
            /\ reqs' = [reqs EXCEPT ![r].pc = "history",
                                    ![r].userMsg = NewMessage(q.conv, q.msg, "user")]
       ELSE IF ForeignKeyHolds(q.conv)
       THEN /\ DbInsertMessage(q.conv, q.msg, "user")
            /\ reqs' = [reqs EXCEPT ![r].pc = "user_touch",
                                    ![r].userMsg = NewMessage(q.conv, q.msg, "user")]
       ELSE /\ reqs' = [reqs EXCEPT ![r] = Reply(q, 500, "Failed to process message")]
            /\ UNCHANGED << messages, messageIdCounter, conversations >>
    /\ UNCHANGED << hook, backend, env, served, users, memHeap, apiKeys, conversationIdCounter,
                    apiKeyIdCounter >>

\* the second statement of DatabaseStorage.createMessage for the user message
ChatTouchUser(r) ==
    LET q == reqs[r] IN
    /\ q.pc = "user_touch"
    /\ DbTouchConversation(q.conv)
    /\ reqs' = [reqs EXCEPT ![r].pc = "history"]
    /\ UNCHANGED << hook, backend, env, served, users, memHeap, apiKeys, conversationIdCounter,
                    apiKeyIdCounter >>

\* storage.getMessagesByConversationId(conversationId), then formattedHistory
ChatHistory(r) ==
    LET q == reqs[r] IN
    /\ q.pc = "history"
    /\ reqs' = [reqs EXCEPT ![r].pc = "keys",
                            ![r].history =
                                FormatHistory(getMessagesByConversationId(q.conv))]
    /\ UNCHANGED << hook, backend, env, served, store >>

\* storage.getApiKeysByUserId(userId) and the choice of the credential
ChatKeys(r) ==
    LET q == reqs[r] IN
    /\ q.pc = "keys"
    /\ \E keyRow \in getApiKeysByUserId(q.sess) :
         reqs' = [reqs EXCEPT ![r] =
            IF TogetherKey(keyRow) = ""
            THEN Reply(q, 400, "No Together AI API key found")
            ELSE [q EXCEPT !.pc = "memory", !.credential = TogetherKey(keyRow)]]
    /\ UNCHANGED << hook, backend, env, served, store >>

\* storage.getUser(userId), the system prompt with its memory block, and the
\* web search
ChatMemory(r) ==
    LET q == reqs[r]
        userMemory == MemoryOf(getUser(q.sess))
    IN
    /\ q.pc = "memory"
    /\ \E outcome \in SearchOutcomes(FALSE) :
         reqs' = [reqs EXCEPT ![r] =
            IF userMemory # 0 /\ JsonParseThrows(memHeap[userMemory])
            THEN Reply(q, 500, "Failed to process message")
            ELSE AfterSearch([q EXCEPT !.promptMemory = Len(PromptMemory(userMemory))],
                             outcome)]
    /\ UNCHANGED << hook, backend, env, served, store >>

\* what follows the assistant message: the memory update, or the answer
AfterAssistant(q, am) ==
    IF UpdatesMemory(q)
    THEN [q EXCEPT !.pc = "mem_read", !.asstMsg = am, !.history = << >>]
    ELSE ReplyTurn(q, q.userMsg, am)

\* a handler that does not look at response.ok
ResponseAlwaysOk(outcome) == TRUE

\* response.ok
ResponseOk(outcome) == outcome # "http_error"

\* a handler without the check of aiResponse
TruthyAlways(s) == TRUE

\* !!s: the empty string is falsy
Truthy(s) == Length(s) > 0

\* data.choices?.[0]?.message?.content, undefined (falsy) when the field is missing
AnswerOf(outcome, ai) == IF outcome = "no_answer" THEN EmptyStr ELSE ai

\* the completion call, the checks of its response, and the assistant message
ChatComplete(r, outcome, ai) ==
    LET aiResponse == AnswerOf(outcome, ai)
        q == [reqs[r] EXCEPT !.calls = @ + 1, !.completion = outcome,
                             !.aiResponse = aiResponse]
        am == NewMessage(q.conv, aiResponse, "assistant")
    IN
    /\ reqs[r].pc = "complete"
    /\ IF ~ResponseOk(outcome)
       THEN /\ reqs' = [reqs EXCEPT ![r] =
                          Reply(q, 500, "Failed to get response from AI model")]
            /\ UNCHANGED << messages, messageIdCounter, conversations >>
       ELSE IF ~Truthy(aiResponse)
       THEN /\ reqs' = [reqs EXCEPT ![r] =
                          Reply(q, 500, "Invalid response format from AI model")]
            /\ UNCHANGED << messages, messageIdCounter, conversations >>
       ELSE IF ~StoresMessages(q)
       THEN /\ reqs' = [reqs EXCEPT ![r] =
                          AfterAssistant(q, GuestMessage(-2, q.conv, aiResponse, "assistant"))]
            /\ UNCHANGED << messages, messageIdCounter, conversations >>
       ELSE IF backend = "mem"
       THEN /\ MemCreateMessage(q.conv, aiResponse, "assistant")
            /\ reqs' = [reqs EXCEPT ![r] = AfterAssistant(q, am)]
       ELSE IF ForeignKeyHolds(q.conv)
       THEN /\ DbInsertMessage(q.conv, aiResponse, "assistant")
            /\ reqs' = [reqs EXCEPT ![r] =
                          [q EXCEPT !.pc = "asst_touch", !.asstMsg = am,
                                    !.history = << >>]]
       ELSE /\ reqs' = [reqs EXCEPT ![r] = Reply(q, 500, "Failed to process message")]
            /\ UNCHANGED << messages, messageIdCounter, conversations >>
    /\ UNCHANGED << hook, backend, env, served, users, memHeap, apiKeys, conversationIdCounter,
                    apiKeyIdCounter >>

\* the second statement of DatabaseStorage.createMessage for the assistant message
ChatTouchAsst(r) ==
    LET q == reqs[r] IN
    /\ q.pc = "asst_touch"
    /\ DbTouchConversation(q.conv)
    /\ reqs' = [reqs EXCEPT ![r] = AfterAssistant(q, q.asstMsg)]
    /\ UNCHANGED << hook, backend, env, served, users, memHeap, apiKeys, conversationIdCounter,
                    apiKeyIdCounter >>

\* a statement of the database can fail (the connection is lost, the statement
\* times out); the maps of MemStorage cannot
StorageFaults == IF backend = "db" THEN {FALSE, TRUE} ELSE {FALSE}

\* a memory update without its try block: the failure reaches the outer catch
AfterMemoryUpdateUncaught(q, failed) ==
    IF failed THEN Reply([q EXCEPT !.memFailed = TRUE], 500, "Failed to process message")
    ELSE ReplyTurn(q, q.userMsg, q.asstMsg)

\* the end of the memory update: a failure is caught and logged, and the
\* handler answers with both messages either way
AfterMemoryUpdate(q, failed) ==
    ReplyTurn([q EXCEPT !.memFailed = failed], q.userMsg, q.asstMsg)

\* the memory update, first half: storage.getUser(userId) inside the try block
ChatMemRead(r, fault) ==
    LET q == reqs[r]
        user == getUser(q.sess)
    IN
    /\ q.pc = "mem_read"
    /\ fault \in StorageFaults
    /\ reqs' = [reqs EXCEPT ![r] =
          IF fault THEN AfterMemoryUpdate(q, TRUE)
          ELSE IF user.id = 0 THEN AfterMemoryUpdate(q, FALSE)
          ELSE [q EXCEPT !.pc = "mem_write", !.memRef = user.memory]]
    /\ UNCHANGED << hook, backend, env, served, store >>

\* the memory update, second half: parse the blob read, append the entry of
\* this turn, keep the last 10, storage.updateUser(userId, { memory })
ChatMemWrite(r, fault) ==
    LET q == reqs[r]
        entry == MemoryEntry(q.msg, q.aiResponse, clock)
        conversationsNow == UpdatedConversations(ExistingConversations(q.memRef), entry)
        inPlace == /\ q.memRef # 0
                   /\ ~JsonParseThrows(memHeap[q.memRef])
                   /\ SharesStoredObject(memHeap[q.memRef])
    IN
    /\ q.pc = "mem_write"
    /\ fault \in StorageFaults
    /\ IF inPlace
       THEN /\ memHeap' = [memHeap EXCEPT ![q.memRef] = MemoryObject(conversationsNow)]
            /\ users' = [users EXCEPT ![q.sess].memory = q.memRef]
       ELSE IF fault
       THEN UNCHANGED << memHeap, users >>
       ELSE /\ memHeap' = Append(memHeap, MemoryObject(conversationsNow))
            /\ users' = [users EXCEPT ![q.sess].memory = Len(memHeap) + 1]
    /\ reqs' = [reqs EXCEPT ![r] = AfterMemoryUpdate(q, fault)]
    /\ UNCHANGED << hook, backend, env, served, conversations, messages, apiKeys,
                    conversationIdCounter, messageIdCounter, apiKeyIdCounter >>

(***************************************************************************)
(* The conversation routes of routes.ts.                                   *)
(***************************************************************************)
\* the answer of a route that stops before its work: 401 from the middleware,
\* 500 when req.user is undefined, 404 and 403 from the ownership check
Refusal(q, failure) ==
    LET conversation == getConversation(q.conv) IN
    IF ~isAuthenticated(q) THEN Unauthorized(q)
    ELSE IF ~HasUser(q) THEN Reply(q, 500, failure)
    ELSE IF conversation = NoConv THEN Reply(q, 404, "Conversation not found")
    ELSE IF AccessDenied(conversation, q.sess) THEN Reply(q, 403, "Access denied")
    ELSE q

\* POST /api/conversations
CreateConversation(r, ident, malformed) ==
    LET q == NewReq("create", ident, 0, EmptyStr)
        id == conversationIdCounter
        create == isAuthenticated(q) /\ HasUser(q) /\ ~malformed
    IN
    /\ Accept(r)
    /\ IF create
       THEN /\ conversations' = conversations @@
                  (id :> [id |-> id, userId |-> q.sess, createdAt |-> clock,
                          updatedAt |-> clock])
            /\ conversationIdCounter' = id + 1
            /\ reqs' = [reqs EXCEPT ![r] = ReplyFound(q, 201, id, << >>)]
       ELSE /\ reqs' = [reqs EXCEPT ![r] =
                  IF ~isAuthenticated(q) THEN Unauthorized(q)
                  ELSE IF ~HasUser(q) THEN Reply(q, 500, "Failed to create conversation")
                  ELSE Reply(q, 400, "Invalid conversation data")]
            /\ UNCHANGED << conversations, conversationIdCounter >>
    /\ UNCHANGED << hook, backend, env, users, memHeap, messages, apiKeys,
                    messageIdCounter, apiKeyIdCounter >>

\* GET /api/conversations/:id, up to the ownership check
GetBegin(r, ident, cid) ==
    LET q == NewReq("get", ident, cid, EmptyStr)
        refusal == Refusal(q, "Failed to fetch conversation")
    IN
    /\ Accept(r)
    /\ reqs' = [reqs EXCEPT ![r] =
                  IF refusal = q THEN [q EXCEPT !.pc = "get_messages"] ELSE refusal]
    /\ UNCHANGED << hook, backend, env, store >>

\* GET /api/conversations/:id: getMessagesByConversationId and the answer
GetMessages(r) ==
    LET q == reqs[r]
        rows == getMessagesByConversationId(q.conv)
    IN
    /\ q.pc = "get_messages"
    /\ reqs' = [reqs EXCEPT ![r] =
                  ReplyFound(q, 200, q.conv, [ i \in 1 .. Len(rows) |-> rows[i].id ])]
    /\ UNCHANGED << hook, backend, env, served, store >>

\* DELETE /api/conversations/:id, up to the ownership check
DeleteBegin(r, ident, cid) ==
    LET q == NewReq("delete", ident, cid, EmptyStr)
        refusal == Refusal(q, "Failed to delete conversation")
    IN
    /\ Accept(r)
    /\ reqs' = [reqs EXCEPT ![r] =
                  IF refusal = q THEN [q EXCEPT !.pc = "delete"] ELSE refusal]
    /\ UNCHANGED << hook, backend, env, store >>

\* storage.deleteConversation: MemStorage deletes the messages and the
\* conversation in one block, the database deletes the messages first
DeleteConversation(r) ==
    LET q == reqs[r] IN
    /\ q.pc = "delete"
    /\ messages' = WithoutMessagesOf(q.conv)
    /\ IF backend = "mem"
       THEN /\ conversations' = WithoutConversation(q.conv)
            /\ reqs' = [reqs EXCEPT ![r] = Reply(q, 204, "")]
       ELSE /\ reqs' = [reqs EXCEPT ![r].pc = "delete_row"]
            /\ UNCHANGED conversations
    /\ UNCHANGED << hook, backend, env, served, users, memHeap, apiKeys, conversationIdCounter,
                    messageIdCounter, apiKeyIdCounter >>

\* DatabaseStorage.deleteConversation, second statement: the row of the
\* conversation, which a message inserted meanwhile still references
DeleteConversationRow(r) ==
    LET q == reqs[r]
        referenced == \E m \in DOMAIN messages : messages[m].conversationId = q.conv
    IN
    /\ q.pc = "delete_row"
    /\ IF referenced
       THEN /\ reqs' = [reqs EXCEPT ![r] = Reply(q, 500, "Failed to delete conversation")]
            /\ UNCHANGED conversations
       ELSE /\ conversations' = WithoutConversation(q.conv)
            /\ reqs' = [reqs EXCEPT ![r] = Reply(q, 204, "")]
    /\ UNCHANGED << hook, backend, env, served, users, memHeap, messages, apiKeys,
                    conversationIdCounter, messageIdCounter, apiKeyIdCounter >>

(***************************************************************************)
(* POST /api/image/generate                                                *)
(***************************************************************************)
\* `Generated image with prompt: "${prompt}"`
ImagePromptContent == Str("Generated image with prompt", 40)

\* "I've generated 1 image based on your prompt." and the image as a data URL
ImageReplyContent == Str("I've generated 1 image", 9000)

\* process.env.STABILITY_API_KEY; the api_keys row has no stabilityApiKey
StabilityKey == IF env.stability THEN "env-key" ELSE ""

\* if (conversationId && !isGuestMode)
SavesToConversation(q) == q.conv # 0 /\ ~q.guest

\* the body, the credential, and the call of the image provider
ImageBegin(r, ident, cid, malformed) ==
    LET q == NewReq("image", ident, cid, EmptyStr) IN
    /\ Accept(r)
    /\ reqs' = [reqs EXCEPT ![r] =
          IF ~isAuthenticated(q) THEN Unauthorized(q)
          ELSE IF malformed THEN Reply(q, 400, "Invalid image generation parameters")
          ELSE IF ~q.guest /\ ~HasUser(q) THEN Reply(q, 500, "Failed to generate image")
          ELSE IF StabilityKey = "" THEN Reply(q, 400, "No Stability AI API key")
          ELSE [q EXCEPT !.pc = "image_generate"]]
    /\ UNCHANGED << hook, backend, env, store >>

\* the answer of the image provider and, for a conversation, the user message
ImageGenerate(r, ok) ==
    LET q == [reqs[r] EXCEPT !.calls = @ + 1]
        save == ok /\ SavesToConversation(q)
    IN
    /\ reqs[r].pc = "image_generate"
    /\ IF ~ok
       THEN /\ reqs' = [reqs EXCEPT ![r] = Reply(q, 500, "Failed to generate image")]
            /\ UNCHANGED << messages, messageIdCounter, conversations >>
       ELSE IF ~save
       THEN /\ reqs' = [reqs EXCEPT ![r] = Reply(q, 200, "")]
            /\ UNCHANGED << messages, messageIdCounter, conversations >>
       ELSE IF backend = "mem"
       THEN /\ MemCreateMessage(q.conv, ImagePromptContent, "user")
            /\ reqs' = [reqs EXCEPT ![r] = [q EXCEPT !.pc = "image_store"]]
       ELSE IF ForeignKeyHolds(q.conv)
       THEN /\ DbInsertMessage(q.conv, ImagePromptContent, "user")
            /\ reqs' = [reqs EXCEPT ![r] = [q EXCEPT !.pc = "image_user_touch"]]
       ELSE /\ reqs' = [reqs EXCEPT ![r] = Reply(q, 200, "")]
            /\ UNCHANGED << messages, messageIdCounter, conversations >>
    /\ UNCHANGED << hook, backend, env, served, users, memHeap, apiKeys, conversationIdCounter,
                    apiKeyIdCounter >>

\* the second statement of DatabaseStorage.createMessage for the user message
ImageTouchUser(r) ==
    LET q == reqs[r] IN
    /\ q.pc = "image_user_touch"
    /\ DbTouchConversation(q.conv)
    /\ reqs' = [reqs EXCEPT ![r].pc = "image_store"]
    /\ UNCHANGED << hook, backend, env, served, users, memHeap, apiKeys, conversationIdCounter,
                    apiKeyIdCounter >>

\* the assistant message with the image URLs
ImageStore(r) ==
    LET q == reqs[r] IN
    /\ q.pc = "image_store"
    /\ IF backend = "mem"
       THEN /\ MemCreateMessage(q.conv, ImageReplyContent, "assistant")
            /\ reqs' = [reqs EXCEPT ![r] = Reply(q, 200, "")]
       ELSE IF ForeignKeyHolds(q.conv)
       THEN /\ DbInsertMessage(q.conv, ImageReplyContent, "assistant")
            /\ reqs' = [reqs EXCEPT ![r].pc = "image_asst_touch"]
       ELSE /\ reqs' = [reqs EXCEPT ![r] = Reply(q, 200, "")]
            /\ UNCHANGED << messages, messageIdCounter, conversations >>
    /\ UNCHANGED << hook, backend, env, served, users, memHeap, apiKeys, conversationIdCounter,
                    apiKeyIdCounter >>

\* the second statement of DatabaseStorage.createMessage for the assistant message
ImageTouchAsst(r) ==
    LET q == reqs[r] IN
    /\ q.pc = "image_asst_touch"
    /\ DbTouchConversation(q.conv)
    /\ reqs' = [reqs EXCEPT ![r] = Reply(q, 200, "")]
    /\ UNCHANGED << hook, backend, env, served, users, memHeap, apiKeys, conversationIdCounter,
                    apiKeyIdCounter >>

(***************************************************************************)
(* The specification: two registered users, and what earlier requests of   *)
(* user 1 left in the store.                                               *)
(***************************************************************************)
Backends == {"mem", "db"}

\* a deployment: the credentials of process.env and the api_keys rows saved so
\* far; either the environment holds the keys, or user 2 alone has saved one
Deployments ==
    { [env |-> [together |-> TRUE, stability |-> TRUE], apiKeys |-> << >>],
      [env |-> [together |-> FALSE, stability |-> FALSE],
       apiKeys |-> << [id |-> 1, userId |-> 2, togetherApiKey |-> "user-key",
                       duckduckgoApiKey |-> ""] >>] }

\* the messages at the start: turns of earlier requests, the user messages as
\* long as the history allows or one character longer, every other answer an
\* image; the first MaxStored
\* belong to conversation 1, the turn after them to conversation 2
StoredMessage(i) ==
    [id |-> i, conversationId |-> IF i <= MaxStored THEN 1 ELSE 2,
     content |-> IF i % 2 = 1
                 THEN (IF i % 4 = 1 THEN Str("hello", ContentLimit)
                                    ELSE Str("hello", ContentLimit + 1))
                 ELSE (IF i % 4 = 2 THEN Str("answer", 250) ELSE ImageReplyContent),
     role |-> IF i % 2 = 1 THEN "user" ELSE "assistant",
     timestamp |-> i + 1]

\* the memory of user 1 at the start: the entries of n earlier turns
StoredMemory(n) ==
    MemoryObject([ i \in 1 .. n |->
        MemoryEntry(Str("hello", 5), Str("answer", 250), i + 1) ])

\* the users at the start: alice has registered with a password, bob has
\* come in through OAuth and has none; alice has a memory blob
StoredUser(u) ==
    [id |-> u, memory |-> IF u = 1 THEN 1 ELSE 0,
     username |-> IF u = 1 THEN "alice" ELSE "bob",
     email |-> IF u = 1 THEN "alice@x.com" ELSE "bob@x.com",
     password |-> IF u = 1 THEN [alg |-> "bcrypt", of |-> "secret1", salt |-> "s1"]
                  ELSE NoHash]

\* user 1 has a conversation of MaxStored messages and a full memory, user 2
\* a conversation of one turn and no memory
Init ==
    /\ hook = [messages |-> << >>]
    /\ backend \in Backends
    /\ \E d \in Deployments : env = d.env /\ apiKeys = d.apiKeys
    /\ messages = [ i \in 1 .. MaxStored + 2 |-> StoredMessage(i) ]
    /\ messageIdCounter = MaxStored + 3
    /\ conversations =
         << [id |-> 1, userId |-> 1, createdAt |-> 1, updatedAt |-> MaxStored + 1],
            [id |-> 2, userId |-> 2, createdAt |-> 2, updatedAt |-> MaxStored + 3] >>
    /\ memHeap = << StoredMemory(MemoryLimit) >>
    /\ users = [ u \in UserIds |-> StoredUser(u) ]
    /\ conversationIdCounter = 3
    /\ apiKeyIdCounter = Len(apiKeys) + 1
    /\ served = 0
    /\ reqs = [ r \in Slots |-> IdleReq ]

Next ==
    \E r \in Slots :
        \/ \E ident \in Identities, msg \in Msgs, cid \in ConvIds :
              ChatBegin(r, ident, msg, cid, FALSE)
        \/ \E ident \in Identities : ChatBegin(r, ident, EmptyStr, 0, TRUE)
        \/ ChatStoreUser(r)
        \/ ChatTouchUser(r)
        \/ ChatHistory(r)
        \/ ChatKeys(r)
        \/ ChatMemory(r)
        \/ \E outcome \in CompletionOutcomes, ai \in AiReplies :
              ChatComplete(r, outcome, ai)
        \/ ChatTouchAsst(r)
        \/ \E fault \in BOOLEAN : ChatMemRead(r, fault)
        \/ \E fault \in BOOLEAN : ChatMemWrite(r, fault)
        \/ \E ident \in Identities, malformed \in BOOLEAN :
              CreateConversation(r, ident, malformed)
        \/ \E ident \in Identities, cid \in ConvIds : GetBegin(r, ident, cid)
        \/ GetMessages(r)
        \/ \E ident \in Identities, cid \in ConvIds : DeleteBegin(r, ident, cid)
        \/ DeleteConversation(r)
        \/ DeleteConversationRow(r)
        \/ \E ident \in Identities, cid \in {0} \cup ConvIds :
              ImageBegin(r, ident, cid, FALSE)
        \/ \E ident \in Identities : ImageBegin(r, ident, 0, TRUE)
        \/ \E ok \in BOOLEAN : ImageGenerate(r, ok)
        \/ ImageTouchUser(r)
        \/ ImageStore(r)
        \/ ImageTouchAsst(r)

Spec == Init /\ [][Next]_vars

(***************************************************************************)
(* GET and POST /api/api-keys.  A key field of a request body or of a row  *)
(* is a string; Absent stands for a field that the body does not have, and *)
(* a column that is null holds "".                                         *)
(***************************************************************************)
Absent == "undefined"

\* JSON.stringify of a boolean
JsonBoolean(b) == IF b THEN "true" ELSE "false"

\* Boolean(value) of a key column or field
HasKey(value) == value # "" /\ value # Absent

\* an answer that carries the stored values
StoredKeys(row) ==
    [hasTogetherApiKey |-> row.togetherApiKey,
     hasDuckduckgoApiKey |-> row.duckduckgoApiKey]

\* { hasTogetherApiKey: Boolean(...), hasDuckduckgoApiKey: Boolean(...) }
SanitizedKeys(row) ==
    [hasTogetherApiKey |-> JsonBoolean(HasKey(row.togetherApiKey)),
     hasDuckduckgoApiKey |-> JsonBoolean(HasKey(row.duckduckgoApiKey))]

\* res.json(sanitizedKeys)
ReplyKeys(q, row) ==
    [Reply(q, 200, "") EXCEPT !.keyBody = q.keyBody, !.has = SanitizedKeys(row)]

\* the value of a column after { ...apiKey, ...apiKeyData }: a field of the
\* body, undefined included, replaces the stored one
Spread(stored, given) == IF given = Absent THEN "" ELSE given

\* the value of a column after UPDATE ... SET: undefined fields are left out
SetColumn(stored, given) == IF given = Absent THEN stored ELSE given

\* the row that createApiKey stores
NewApiKey(uid, body) ==
    [id |-> apiKeyIdCounter, userId |-> uid,
     togetherApiKey |-> Spread("", body.togetherApiKey),
     duckduckgoApiKey |-> Spread("", body.duckduckgoApiKey)]

\* the rows of a user, by their place in the table
RowsOf(uid) == { k \in DOMAIN apiKeys : apiKeys[k].userId = uid }

\* GET /api/api-keys
KeysGet(r, ident) ==
    /\ Accept(r)
    /\ LET q == NewReq("keys_get", ident, 0, EmptyStr)
       IN  \E row \in getApiKeysByUserId(q.sess) :
           reqs' = [reqs EXCEPT ![r] =
              IF ~isAuthenticated(q) THEN Unauthorized(q)
              ELSE IF ~HasUser(q) THEN Reply(q, 500, "Failed to fetch API keys")
              ELSE ReplyKeys(q, row)]
    /\ UNCHANGED << hook, backend, env, store >>

\* POST /api/api-keys up to the end of the first storage access: the whole
\* of MemStorage.updateApiKey, or the SELECT of DatabaseStorage.updateApiKey
KeysSave(r, ident, body) ==
    /\ Accept(r)
    /\ LET q == [NewReq("keys_save", ident, 0, EmptyStr) EXCEPT !.keyBody = body]
           mine == RowsOf(q.sess)
           k == CHOOSE k \in mine : \A j \in mine : k <= j
           updated == [apiKeys[k] EXCEPT
                          !.togetherApiKey = Spread(@, body.togetherApiKey),
                          !.duckduckgoApiKey = Spread(@, body.duckduckgoApiKey)]
       IN  IF ~isAuthenticated(q)
           THEN /\ reqs' = [reqs EXCEPT ![r] = Unauthorized(q)]
                /\ UNCHANGED << apiKeys, apiKeyIdCounter >>
           ELSE IF ~HasUser(q)
           THEN /\ reqs' = [reqs EXCEPT ![r] = Reply(q, 500, "Failed to update API keys")]
                /\ UNCHANGED << apiKeys, apiKeyIdCounter >>
           ELSE IF backend = "db"
           THEN /\ reqs' = [reqs EXCEPT ![r] =
                              [q EXCEPT !.pc = "key_write", !.keyFound = mine # {}]]
                /\ UNCHANGED << apiKeys, apiKeyIdCounter >>
           ELSE IF mine = {}
           THEN /\ apiKeys' = Append(apiKeys, NewApiKey(q.sess, body))
                /\ apiKeyIdCounter' = apiKeyIdCounter + 1
                /\ reqs' = [reqs EXCEPT ![r] = ReplyKeys(q, NewApiKey(q.sess, body))]
           ELSE /\ apiKeys' = [apiKeys EXCEPT ![k] = updated]
                /\ UNCHANGED apiKeyIdCounter
                /\ reqs' = [reqs EXCEPT ![r] = ReplyKeys(q, updated)]
    /\ UNCHANGED << hook, backend, env, users, memHeap, conversations, messages,
                    conversationIdCounter, messageIdCounter >>

\* the second statement of DatabaseStorage.updateApiKey: the INSERT of
\* createApiKey when the SELECT found no row, else UPDATE ... WHERE user_id
KeysSaveWrite(r) ==
    LET q == reqs[r]
        body == q.keyBody
        mine == RowsOf(q.sess)
        updated == [ k \in DOMAIN apiKeys |->
                       IF k \in mine
                       THEN [apiKeys[k] EXCEPT
                               !.togetherApiKey = SetColumn(@, body.togetherApiKey),
                               !.duckduckgoApiKey = SetColumn(@, body.duckduckgoApiKey)]
                       ELSE apiKeys[k] ]
    IN
    /\ q.pc = "key_write"
    /\ IF ~q.keyFound
       THEN /\ apiKeys' = Append(apiKeys, NewApiKey(q.sess, body))
            /\ apiKeyIdCounter' = apiKeyIdCounter + 1
            /\ reqs' = [reqs EXCEPT ![r] = ReplyKeys(q, NewApiKey(q.sess, body))]
       ELSE IF body.togetherApiKey = Absent /\ body.duckduckgoApiKey = Absent
       THEN /\ reqs' = [reqs EXCEPT ![r] = Reply(q, 500, "Failed to update API keys")]
            /\ UNCHANGED << apiKeys, apiKeyIdCounter >>
       ELSE /\ apiKeys' = updated
            /\ UNCHANGED apiKeyIdCounter
            /\ \E k \in mine \cup {0} :
                  /\ (k = 0) = (mine = {})
                  /\ reqs' = [reqs EXCEPT ![r] =
                        ReplyKeys(q, IF k = 0 THEN NoKeys ELSE updated[k])]
    /\ UNCHANGED << hook, backend, env, served, users, memHeap, conversations, messages,
                    conversationIdCounter, messageIdCounter >>

\* the key fields of a request body
KeyBodies ==
    { [togetherApiKey |-> t, duckduckgoApiKey |-> d] :
        t \in {Absent, "", "key-a", "key-b"}, d \in {Absent, "key-a"} }

\* who asks for the keys: the two users and a guest without a session
KeyIdentities ==
    { [sess |-> u, guest |-> FALSE] : u \in UserIds } \cup { [sess |-> 0, guest |-> TRUE] }

KeysNext ==
    \E r \in Slots :
        \/ \E ident \in KeyIdentities : KeysGet(r, ident)
        \/ \E ident \in KeyIdentities, body \in KeyBodies : KeysSave(r, ident, body)
        \/ KeysSaveWrite(r)

SpecKeys == Init /\ [][KeysNext]_vars

(***************************************************************************)
(* Guest turns with the message texts that exercise the search patterns.   *)
(***************************************************************************)
IntentTexts == MessageTexts \ { "hello", LongText }

IntentMsgs == { Str(t, Len(Spell(t))) : t \in IntentTexts }

IntentNext ==
    \E r \in Slots :
       \/ \E msg \in IntentMsgs :
             ChatBegin(r, [sess |-> 0, guest |-> TRUE], msg, 1, FALSE)
       \/ \E outcome \in CompletionOutcomes, ai \in AiReplies :
             ChatComplete(r, outcome, ai)

SpecIntent == Init /\ [][IntentNext]_vars

(***************************************************************************)
(* Chat turns of user 1 and of a guest, with a text that asks for a web    *)
(* search and with a completion answer that may be empty.                  *)
(***************************************************************************)
\* users.memory is a jsonb column: an object with the conversations array, an
\* object without one, a JSON string of such an object, a string that is no
\* JSON
ChatMemories ==
    { StoredMemory(MemoryLimit),
      [kind |-> "noarray", conversations |-> << >>],
      [kind |-> "string", conversations |-> StoredMemory(2).conversations],
      [kind |-> "badstring", conversations |-> << >>] }

ChatMsgs == { Str("hello", 5), Str("What Is x", 9) }

\* the content of the completion answer: a text, or the empty string
ChatReplies == { Str("answer", 250), EmptyStr }

ChatIdentities == { [sess |-> 1, guest |-> FALSE], [sess |-> 0, guest |-> TRUE] }

\* the environment holds the keys, nobody has saved one, and user 1 has the
\* conversation of Init and the memory blob
InitWithMemory(blob) ==
    /\ hook = [messages |-> << >>]
    /\ backend \in Backends
    /\ env = [together |-> TRUE, stability |-> TRUE]
    /\ apiKeys = << >>
    /\ messages = [ i \in 1 .. MaxStored + 2 |-> StoredMessage(i) ]
    /\ messageIdCounter = MaxStored + 3
    /\ conversations =
         << [id |-> 1, userId |-> 1, createdAt |-> 1, updatedAt |-> MaxStored + 1],
            [id |-> 2, userId |-> 2, createdAt |-> 2, updatedAt |-> MaxStored + 3] >>
    /\ memHeap = << blob >>
    /\ users = [ u \in UserIds |-> StoredUser(u) ]
    /\ conversationIdCounter = 3
    /\ apiKeyIdCounter = 1
    /\ served = 0
    /\ reqs = [ r \in Slots |-> IdleReq ]

ChatInit == InitWithMemory(StoredMemory(MemoryLimit))

ChatNext ==
    \E r \in Slots :
        \/ \E ident \in ChatIdentities, msg \in ChatMsgs :
              ChatBegin(r, ident, msg, 1, FALSE)
        \/ ChatStoreUser(r)
        \/ ChatTouchUser(r)
        \/ ChatHistory(r)
        \/ ChatKeys(r)
        \/ ChatMemory(r)
        \/ \E outcome \in CompletionOutcomes, ai \in ChatReplies :
              ChatComplete(r, outcome, ai)
        \/ ChatTouchAsst(r)
        \/ \E fault \in BOOLEAN : ChatMemRead(r, fault)
        \/ \E fault \in BOOLEAN : ChatMemWrite(r, fault)

SpecChat == ChatInit /\ [][ChatNext]_vars

(***************************************************************************)
(* Chat turns of user 1 over the memory blobs that the users table may     *)
(* hold.                                                                   *)
(***************************************************************************)
MemoryInit == \E blob \in ChatMemories : InitWithMemory(blob)

\* a short text, and one that is longer than a topic
MemoryMsgs == { Str("hello", 5), Str(LongText, TopicLimit + 1) }

MemoryNext ==
    \E r \in Slots :
        \/ \E msg \in MemoryMsgs :
              ChatBegin(r, [sess |-> 1, guest |-> FALSE], msg, 1, FALSE)
        \/ ChatStoreUser(r)
        \/ ChatTouchUser(r)
        \/ ChatHistory(r)
        \/ ChatKeys(r)
        \/ ChatMemory(r)
        \/ \E outcome \in CompletionOutcomes, ai \in AiReplies :
              ChatComplete(r, outcome, ai)
        \/ ChatTouchAsst(r)
        \/ \E fault \in BOOLEAN : ChatMemRead(r, fault)
        \/ \E fault \in BOOLEAN : ChatMemWrite(r, fault)

SpecMemory == MemoryInit /\ [][MemoryNext]_vars

(***************************************************************************)
(* Chat turns of user 1 and of a guest over the places a completion key    *)
(* can be in: the environment, the row of user 1, the row of user 2.       *)
(***************************************************************************)
KeyRow(uid, key) ==
    [id |-> 1, userId |-> uid, togetherApiKey |-> key, duckduckgoApiKey |-> ""]

CredentialDeployments ==
    { [env |-> [together |-> e, stability |-> e], apiKeys |-> rows] :
        e \in BOOLEAN,
        rows \in { << >>, << KeyRow(1, "user-key") >>, << KeyRow(1, "") >>,
                   << KeyRow(2, "user-key") >> } }

CredentialInit ==
    /\ hook = [messages |-> << >>]
    /\ backend \in Backends
    /\ \E d \in CredentialDeployments : env = d.env /\ apiKeys = d.apiKeys
    /\ messages = [ i \in 1 .. MaxStored + 2 |-> StoredMessage(i) ]
    /\ messageIdCounter = MaxStored + 3
    /\ conversations =
         << [id |-> 1, userId |-> 1, createdAt |-> 1, updatedAt |-> MaxStored + 1],
            [id |-> 2, userId |-> 2, createdAt |-> 2, updatedAt |-> MaxStored + 3] >>
    /\ memHeap = << StoredMemory(MemoryLimit) >>
    /\ users = [ u \in UserIds |-> StoredUser(u) ]
    /\ conversationIdCounter = 3
    /\ apiKeyIdCounter = Len(apiKeys) + 1
    /\ served = 0
    /\ reqs = [ r \in Slots |-> IdleReq ]

CredentialNext ==
    \E r \in Slots :
        \/ \E ident \in ChatIdentities, msg \in Msgs :
              ChatBegin(r, ident, msg, 1, FALSE)
        \/ ChatStoreUser(r)
        \/ ChatTouchUser(r)
        \/ ChatHistory(r)
        \/ ChatKeys(r)
        \/ ChatMemory(r)
        \/ \E outcome \in {"ok", "http_error"}, ai \in AiReplies :
              ChatComplete(r, outcome, ai)
        \/ ChatTouchAsst(r)
        \/ ChatMemRead(r, FALSE)
        \/ ChatMemWrite(r, FALSE)

SpecCredential == CredentialInit /\ [][CredentialNext]_vars

(***************************************************************************)
(* Up to MaxTurns chat turns of user 1 on conversation 1, each answered by *)
(* the completion API, on DatabaseStorage, where every statement of a turn *)
(* is a round trip during which other turns run.                           *)
(***************************************************************************)
HistoryInit == ChatInit /\ backend = "db"

HistoryNext ==
    \E r \in Slots :
        \/ /\ AcceptUpTo(r, MaxTurns)
           /\ \E msg \in Msgs :
                 ChatAccepted(r, [sess |-> 1, guest |-> FALSE], msg, 1, FALSE)
           /\ UNCHANGED hook
        \/ ChatStoreUser(r)
        \/ ChatTouchUser(r)
        \/ ChatHistory(r)
        \/ ChatKeys(r)
        \/ ChatMemory(r)
        \/ \E ai \in AiReplies : ChatComplete(r, "ok", ai)
        \/ ChatTouchAsst(r)
        \/ ChatMemRead(r, FALSE)
        \/ ChatMemWrite(r, FALSE)

SpecHistory == HistoryInit /\ [][HistoryNext]_vars

(***************************************************************************)
(* Registration and login: /api/auth/register and /api/auth/login with the *)
(* strategy of routes.ts, /api/register and /api/login of setupAuth.       *)
(***************************************************************************)
\* bcrypt.hash(password, salt)
BcryptHash(password, salt) == [alg |-> "bcrypt", of |-> password, salt |-> salt]

\* bcrypt.compare(password, stored): false for a value that is no bcrypt hash
BcryptCompare(password, stored) == stored.alg = "bcrypt" /\ stored.of = password

\* hashPassword of setupAuth: scrypt, stored as hash.salt
hashPassword(password, salt) == [alg |-> "scrypt", of |-> password, salt |-> salt]

\* comparePasswords of setupAuth; timingSafeEqual throws when the stored value
\* does not split into a hash of the scrypt length
ComparePasswordsThrows(stored) == stored.alg # "scrypt"

comparePasswords(supplied, stored) == stored.of = supplied

\* the first user of the table that has the value in the field
FirstUser(ids) ==
    IF ids = {} THEN NoUser ELSE users[CHOOSE k \in ids : \A j \in ids : k <= j]

getUserByUsername(username) ==
    FirstUser({ k \in DOMAIN users : users[k].username = username })

getUserByEmail(email) ==
    IF backend = "db" /\ email = "" THEN NoUser
    ELSE FirstUser({ k \in DOMAIN users : users[k].email = email })

\* the unique constraints of the users table; MemStorage has none
UniqueViolation(username, email) ==
    /\ backend = "db"
    /\ \E k \in DOMAIN users :
          users[k].username = username \/ (email # "" /\ users[k].email = email)

\* the record that createUser stores
NewUser(username, email, hash) ==
    [id |-> Len(users) + 1, memory |-> 0, username |-> username, email |-> email,
     password |-> hash]

\* res.json(user): the whole record
FullUser(user) ==
    [id |-> user.id, username |-> user.username, email |-> user.email,
     hasPassword |-> TRUE, password |-> user.password]

\* res.json({ id, username, email })
PublicUser(user) ==
    [id |-> user.id, username |-> user.username, email |-> user.email,
     hasPassword |-> FALSE, password |-> NoHash]

\* the answer of a register or login route; sessionUser is the user that
\* req.login has put into the session, 0 when it was not called
ReplyAuth(q, st, err, body, sessionUser) ==
    [Reply(q, st, err) EXCEPT !.form = q.form, !.userBody = body,
                              !.session = sessionUser]

Refused(q, st, err) == ReplyAuth(q, st, err, IdleReq.userBody, 0)

NewAuthReq(kind, form) ==
    [IdleReq EXCEPT !.kind = kind, !.form = form]

\* POST /api/auth/register: storage.getUserByUsername(username)
Register(r, form) ==
    /\ Accept(r)
    /\ reqs' = [reqs EXCEPT ![r] =
          [NewAuthReq("register", form) EXCEPT
              !.pc = "reg_email",
              !.dupName = getUserByUsername(form.username) # NoUser]]
    /\ UNCHANGED << hook, backend, env, store >>

\* storage.getUserByEmail(email) and the two checks
RegisterEmail(r) ==
    LET q == reqs[r] IN
    /\ q.pc = "reg_email"
    /\ reqs' = [reqs EXCEPT ![r] =
          IF q.dupName THEN Refused(q, 400, "Username already exists")
          ELSE IF getUserByEmail(q.form.email) # NoUser
          THEN Refused(q, 400, "Email already exists")
          ELSE [q EXCEPT !.pc = "reg_create"]]
    /\ UNCHANGED << hook, backend, env, served, store >>

\* bcrypt.genSalt, bcrypt.hash, storage.createUser, req.login and the answer
RegisterCreate(r, salt) ==
    LET q == reqs[r]
        newUser == NewUser(q.form.username, q.form.email,
                           BcryptHash(q.form.password, salt))
    IN
    /\ q.pc = "reg_create"
    /\ IF UniqueViolation(q.form.username, q.form.email)
       THEN /\ reqs' = [reqs EXCEPT ![r] = Refused(q, 500, "Failed to register user")]
            /\ UNCHANGED users
       ELSE /\ users' = Append(users, newUser)
            /\ reqs' = [reqs EXCEPT ![r] =
                  ReplyAuth(q, 201, "", PublicUser(newUser), newUser.id)]
    /\ UNCHANGED << hook, backend, env, served, memHeap, conversations, messages, apiKeys,
                    conversationIdCounter, messageIdCounter, apiKeyIdCounter >>

\* POST /api/auth/login: the LocalStrategy of routes.ts finds the user by
\* email and compares the password; req.login and the answer
Login(r, form) ==
    /\ Accept(r)
    /\ LET q == NewAuthReq("login", form)
           user == getUserByEmail(form.email)
       IN  reqs' = [reqs EXCEPT ![r] =
             IF user = NoUser THEN Refused(q, 401, "Incorrect email or password")
             ELSE IF user.password = NoHash
             THEN Refused(q, 401, "Please use OAuth to log in")
             ELSE IF ~BcryptCompare(form.password, user.password)
             THEN Refused(q, 401, "Incorrect email or password")
             ELSE ReplyAuth(q, 200, "", PublicUser(user), user.id)]
    /\ UNCHANGED << hook, backend, env, store >>

\* setupAuth reads storage.sessionStore, which DatabaseStorage alone has
LegacyRoutes == backend = "db"

\* POST /api/register: the required fields and storage.getUserByUsername
LegacyRegister(r, form) ==
    /\ LegacyRoutes
    /\ Accept(r)
    /\ LET q == NewAuthReq("legacy_register", form)
       IN  reqs' = [reqs EXCEPT ![r] =
             IF form.username = "" \/ form.password = ""
             THEN Refused(q, 400, "Username and password are required")
             ELSE IF getUserByUsername(form.username) # NoUser
             THEN Refused(q, 400, "Username already exists")
             ELSE IF form.email = "" THEN [q EXCEPT !.pc = "lreg_create"]
             ELSE [q EXCEPT !.pc = "lreg_email"]]
    /\ UNCHANGED << hook, backend, env, store >>

\* storage.getUserByEmail(email), when the body has an email
LegacyRegisterEmail(r) ==
    LET q == reqs[r] IN
    /\ q.pc = "lreg_email"
    /\ reqs' = [reqs EXCEPT ![r] =
          IF getUserByEmail(q.form.email) # NoUser
          THEN Refused(q, 400, "Email already exists")
          ELSE [q EXCEPT !.pc = "lreg_create"]]
    /\ UNCHANGED << hook, backend, env, served, store >>

\* hashPassword, storage.createUser, req.login and res.status(201).json(user)
LegacyRegisterCreate(r, salt) ==
    LET q == reqs[r]
        user == NewUser(q.form.username, q.form.email,
                        hashPassword(q.form.password, salt))
    IN
    /\ q.pc = "lreg_create"
    /\ IF UniqueViolation(q.form.username, q.form.email)
       THEN /\ reqs' = [reqs EXCEPT ![r] = Refused(q, 500, "Internal Server Error")]
            /\ UNCHANGED users
       ELSE /\ users' = Append(users, user)
            /\ reqs' = [reqs EXCEPT ![r] =
                  ReplyAuth(q, 201, "", FullUser(user), user.id)]
    /\ UNCHANGED << hook, backend, env, served, memHeap, conversations, messages, apiKeys,
                    conversationIdCounter, messageIdCounter, apiKeyIdCounter >>

\* POST /api/login: the LocalStrategy of setupAuth finds the user by
\* username; req.login and res.status(200).json(user)
LegacyLogin(r, form) ==
    /\ LegacyRoutes
    /\ Accept(r)
    /\ LET q == NewAuthReq("legacy_login", form)
           user == getUserByUsername(form.username)
       IN  reqs' = [reqs EXCEPT ![r] =
             IF user = NoUser \/ user.password = NoHash
             THEN Refused(q, 401, "Invalid username or password")
             ELSE IF ComparePasswordsThrows(user.password)
             THEN Refused(q, 500, "Internal Server Error")
             ELSE IF ~comparePasswords(form.password, user.password)
             THEN Refused(q, 401, "Invalid username or password")
             ELSE ReplyAuth(q, 200, "", FullUser(user), user.id)]
    /\ UNCHANGED << hook, backend, env, store >>

\* the bodies of register and login requests
Forms ==
    { [username |-> u, email |-> e, password |-> p] :
        u \in {"alice", "carol"}, e \in {"alice@x.com", "carol@x.com"},
        p \in {"secret1", "wrong"} }

\* the salts that genSalt and randomBytes give
Salts == {"s1", "s2"}

AuthNext ==
    \E r \in Slots :
        \/ \E form \in Forms : Register(r, form)
        \/ RegisterEmail(r)
        \/ \E salt \in Salts : RegisterCreate(r, salt)
        \/ \E form \in Forms : Login(r, form)
        \/ \E form \in Forms : LegacyRegister(r, form)
        \/ LegacyRegisterEmail(r)
        \/ \E salt \in Salts : LegacyRegisterCreate(r, salt)
        \/ \E form \in Forms : LegacyLogin(r, form)

SpecAuth == Init /\ [][AuthNext]_vars

(***************************************************************************)
(* The routes behind isAuthenticated, asked by a guest without a session   *)
(* and by user 1; with GET /api/me, GET /api/conversations and             *)
(* POST /api/search.                                                       *)
(***************************************************************************)
\* GET /api/me: res.json(req.user)
Me(r, ident) ==
    /\ Accept(r)
    /\ LET q == NewReq("me", ident, 0, EmptyStr)
       IN  reqs' = [reqs EXCEPT ![r] =
              IF ~isAuthenticated(q) THEN Unauthorized(q)
              ELSE IF ~HasUser(q) THEN Reply(q, 200, "")
              ELSE [Reply(q, 200, "") EXCEPT !.userBody = FullUser(getUser(q.sess))]]
    /\ UNCHANGED << hook, backend, env, store >>

\* storage.getConversationsByUserId(userId), as ids
getConversationsByUserId(uid) ==
    { c \in DOMAIN conversations : conversations[c].userId = uid }

\* GET /api/conversations: the handler of initChatRoutes is registered first
\* and has no middleware; it answers 401 when req.user is not there
ListConversations(r, ident) ==
    /\ Accept(r)
    /\ LET q == NewReq("list", ident, 0, EmptyStr)
       IN  reqs' = [reqs EXCEPT ![r] =
              IF ~HasUser(q) THEN Unauthorized(q)
              ELSE [Reply(q, 200, "") EXCEPT !.listed = getConversationsByUserId(q.sess)]]
    /\ UNCHANGED << hook, backend, env, store >>

\* POST /api/search, asked by a client: the middleware, req.user.id, and the
\* answer of the search provider
SearchRoute(r, ident, ok) ==
    /\ Accept(r)
    /\ LET q == NewReq("search", ident, 0, EmptyStr)
       IN  reqs' = [reqs EXCEPT ![r] =
              IF ~isAuthenticated(q) THEN Unauthorized(q)
              ELSE IF ~HasUser(q) THEN Reply(q, 500, "Failed to process search request")
              ELSE IF ~ok THEN Reply(q, 500, "Failed to get search results")
              ELSE Reply([q EXCEPT !.search = "ok"], 200, "")]
    /\ UNCHANGED << hook, backend, env, store >>

GuestIdentities == { [sess |-> 0, guest |-> TRUE], [sess |-> 1, guest |-> FALSE] }

GuestNext ==
    \E r \in Slots :
        \/ \E ident \in GuestIdentities, msg \in Msgs :
              ChatBegin(r, ident, msg, 1, FALSE)
        \/ ChatStoreUser(r)
        \/ ChatTouchUser(r)
        \/ ChatHistory(r)
        \/ ChatKeys(r)
        \/ ChatMemory(r)
        \/ \E ai \in AiReplies : ChatComplete(r, "ok", ai)
        \/ ChatTouchAsst(r)
        \/ ChatMemRead(r, FALSE)
        \/ ChatMemWrite(r, FALSE)
        \/ \E ident \in GuestIdentities : CreateConversation(r, ident, FALSE)
        \/ \E ident \in GuestIdentities : GetBegin(r, ident, 1)
        \/ GetMessages(r)
        \/ \E ident \in GuestIdentities : DeleteBegin(r, ident, 1)
        \/ DeleteConversation(r)
        \/ DeleteConversationRow(r)
        \/ \E ident \in GuestIdentities : ImageBegin(r, ident, 1, FALSE)
        \/ ImageGenerate(r, TRUE)
        \/ ImageTouchUser(r)
        \/ ImageStore(r)
        \/ ImageTouchAsst(r)
        \/ \E ident \in GuestIdentities : KeysGet(r, ident)
        \/ \E ident \in GuestIdentities :
              KeysSave(r, ident, [togetherApiKey |-> "key-a", duckduckgoApiKey |-> Absent])
        \/ KeysSaveWrite(r)
        \/ \E ident \in GuestIdentities : Me(r, ident)
        \/ \E ident \in GuestIdentities : ListConversations(r, ident)
        \/ \E ident \in GuestIdentities, ok \in BOOLEAN : SearchRoute(r, ident, ok)

SpecGuest == Init /\ [][GuestNext]_vars

(***************************************************************************)
(* The chat hook of the browser, useChat, with the server behind it: the   *)
(* page of user 1 is on conversation 1, every sendUserMessage is a         *)
(* POST /api/chat, and a call settles when its answer has come.            *)
(***************************************************************************)
\* a ChatMessage of the hook; id 0 is a message without an id
ChatMessage(id, content, role, isLoading) ==
    [id |-> id, content |-> content, role |-> role, isLoading |-> isLoading]

ErrorContent ==
    Str("Sorry, I encountered an error processing your request. Please try again.", 72)

\* newMessages.pop()
Pop(s) == IF s = << >> THEN s ELSE SubSeq(s, 1, Len(s) - 1)

\* if (!newMessages.some(msg => msg.id === m.id)) newMessages.push(m)
PushUnlessPresent(s, m) ==
    IF \E i \in DOMAIN s : s[i].id = m.id THEN s ELSE Append(s, m)

\* sendUserMessage up to the await: the optimistic user message and the
\* loading message are put at the end of the list and the request is sent
SendUserMessage(r, content) ==
    /\ Truthy(content)
    /\ reqs[r].pc = "idle"
    /\ Accept(r)
    /\ ChatAccepted(r, [sess |-> 1, guest |-> FALSE], content, 1, FALSE)
    /\ hook' = [hook EXCEPT !.messages =
                   @ \o << ChatMessage(0, content, "user", FALSE),
                           ChatMessage(0, EmptyStr, "assistant", TRUE) >>]

\* sendUserMessage after the await: the updater of the try block when the
\* answer is 200, the updater of the catch block when sendMessage has thrown
Settle(r) ==
    LET q == reqs[r]
        popped == Pop(hook.messages)
        withUser == PushUnlessPresent(popped,
                       ChatMessage(q.userMsg.id, q.userMsg.content, "user", FALSE))
        withBoth == PushUnlessPresent(withUser,
                       ChatMessage(q.asstMsg.id, q.asstMsg.content, "assistant", FALSE))
    IN
    /\ q.pc = "done"
    /\ hook' = [hook EXCEPT !.messages =
                   IF q.status = 200 THEN withBoth
                   ELSE Append(popped, ChatMessage(0, ErrorContent, "assistant", FALSE))]
    /\ reqs' = [reqs EXCEPT ![r] = IdleReq]
    /\ UNCHANGED << backend, env, served, store >>

ClientNext ==
    \E r \in Slots :
        \/ \E content \in Msgs : SendUserMessage(r, content)
        \/ ChatStoreUser(r)
        \/ ChatTouchUser(r)
        \/ ChatHistory(r)
        \/ ChatKeys(r)
        \/ ChatMemory(r)
        \/ \E outcome \in {"ok", "http_error"}, ai \in AiReplies :
              ChatComplete(r, outcome, ai)
        \/ ChatTouchAsst(r)
        \/ ChatMemRead(r, FALSE)
        \/ ChatMemWrite(r, FALSE)
        \/ Settle(r)

SpecClient == ChatInit /\ [][ClientNext]_vars

(***************************************************************************)
(* Properties.  A step belongs to the request of slot r when the slot      *)
(* accepts the request in it or when the record of the slot changes.       *)
(***************************************************************************)
Accepted(r) ==
    /\ served' = served + 1
    /\ Free(r)
    /\ \A other \in Slots : other < r => ~Free(other)

Acts(r) == Accepted(r) \/ reqs'[r] # reqs[r]

\* the messages of conversation c that a step creates, and those it deletes
CreatedIn(c) ==
    { m \in DOMAIN messages' \ DOMAIN messages : messages'[m].conversationId = c }

DeletedFrom(c) ==
    { m \in DOMAIN messages \ DOMAIN messages' : messages[m].conversationId = c }

\* the answer q carries no conversation and no message
NoData(q) ==
    q.foundConv = 0 /\ q.found = << >> /\ q.userMsg = NoMsg /\ q.asstMsg = NoMsg

\* C1: a request creates, deletes or gets back messages of a conversation
\* only when the conversation belongs to the requesting user
C1_OwnerOnly ==
    [][\A r \in Slots, c \in DOMAIN conversations :
          Acts(r) /\ conversations[c].userId # reqs'[r].sess =>
             /\ CreatedIn(c) = {}
             /\ DeletedFrom(c) = {}
             /\ ~(reqs'[r].kind = "get" /\ reqs'[r].foundConv = c)]_vars

\* C2: GET /api/conversations/:id of a logged-in user answers 404 when the
\* conversation does not exist and 403 when it belongs to another user, and
\* in both cases the answer carries no conversation and no message
C2_GetRefusals ==
    [][\A r \in Slots :
          Accepted(r) /\ reqs'[r].kind = "get" /\ reqs'[r].sess # 0 =>
             LET q == reqs'[r]
                 c == q.conv
             IN  /\ c \notin DOMAIN conversations =>
                       q.pc = "done" /\ q.status = 404 /\ NoData(q)
                 /\ c \in DOMAIN conversations /\ conversations[c].userId # q.sess =>
                       q.pc = "done" /\ q.status = 403 /\ NoData(q)]_vars

\* user 2 has asked for the conversation of user 1 and got 403 without data
C2_Witness ==
    \E r \in Slots :
        /\ reqs[r].kind = "get" /\ reqs[r].pc = "done" /\ reqs[r].status = 403
        /\ reqs[r].sess = 2 /\ reqs[r].conv = 1 /\ NoData(reqs[r])
        /\ 1 \in DOMAIN conversations /\ conversations[1].userId = 1

\* C3: no step of a guest-mode chat turn, successful or failed, changes the
\* stored users, memories, conversations or messages
C3_GuestTurnsStoreNothing ==
    [][\A r \in Slots :
          Acts(r) /\ reqs'[r].kind = "chat" /\ reqs'[r].guest =>
             UNCHANGED << users, memHeap, conversations, messages >>]_vars

\* a guest turn has been answered with both messages
C3_Witness ==
    \E r \in Slots :
        /\ reqs[r].kind = "chat" /\ reqs[r].guest /\ reqs[r].pc = "done"
        /\ reqs[r].status = 200 /\ reqs[r].calls = 1
        /\ reqs[r].userMsg.role = "user" /\ reqs[r].asstMsg.role = "assistant"

\* C4: when deleteConversation(id) returns, no stored message belongs to the
\* conversation and the conversation is gone; no statement of it touches a
\* message of another conversation; and a message id is never given out
\* again, so that the deleted ids stay unknown
C4_DeleteRemovesMessages ==
    [][/\ \A r \in Slots :
             Acts(r) /\ reqs[r].pc \in {"delete", "delete_row"} =>
                LET c == reqs[r].conv IN
                /\ \A m \in DOMAIN messages :
                      messages[m].conversationId # c =>
                         m \in DOMAIN messages' /\ messages'[m] = messages[m]
                /\ reqs'[r].status = 204 =>
                      /\ \A m \in DOMAIN messages' : messages'[m].conversationId # c
                      /\ c \notin DOMAIN conversations'
       /\ \A m \in DOMAIN messages : m < messageIdCounter
       /\ \A m \in DOMAIN messages' \ DOMAIN messages : m >= messageIdCounter]_vars

\* conversation 1 has been deleted with its messages, those of conversation 2
\* are still there
C4_Witness ==
    \E r \in Slots :
        /\ reqs[r].kind = "delete" /\ reqs[r].pc = "done" /\ reqs[r].status = 204
        /\ reqs[r].conv = 1 /\ 1 \notin DOMAIN conversations
        /\ \A m \in 1 .. MaxStored : getMessage(m) = NoMsg
        /\ getMessagesByConversationId(1) = << >>
        /\ Len(getMessagesByConversationId(2)) = 2

\* C5: a message is created only for a conversation that exists at that
\* moment
C5_LiveConversationAtCreation ==
    [][\A m \in DOMAIN messages' \ DOMAIN messages :
          messages'[m].conversationId \in DOMAIN conversations]_vars

\* C6: the memory of a user holds at most 10 entries
C6_MemoryBounded ==
    \A u \in DOMAIN users :
        users[u].memory # 0 =>
            Len(memHeap[users[u].memory].conversations) <= MemoryLimit

\* a turn of user 1, whose memory was full, has added its entry
C6_Witness ==
    \E r \in Slots :
        /\ reqs[r].kind = "chat" /\ reqs[r].pc = "done" /\ reqs[r].status = 200
        /\ reqs[r].sess = 1 /\ ~reqs[r].memFailed
        /\ LET entries == memHeap[users[1].memory].conversations IN
           /\ Len(entries) = MemoryLimit
           /\ entries[MemoryLimit].lastInteraction > MemoryLimit + 1

\* what the handler sends for the stored message m when it sends it
SentAs(m, h) ==
    /\ h.role = m.role
    /\ Length(m.content) <= ContentLimit => h.content = m.content

\* C7: the history of a turn is the last 10 stored messages of the
\* conversation, or all of them when there are fewer, in stored order, a
\* content of at most 8000 characters unchanged; and the history handed to the
\* completion API has at most 10 messages of at most 8000 characters plus the
\* marker
C7_HistoryBounded ==
    [][\A r \in Slots :
          /\ Acts(r) /\ reqs[r].pc = "history" =>
                LET stored == getMessagesByConversationId(reqs[r].conv)
                    sent == reqs'[r].history
                    skipped == Len(stored) - Len(sent)
                IN  /\ Len(sent) = Min(Len(stored), HistoryLimit)
                    /\ \A i \in 1 .. Len(sent) : SentAs(stored[skipped + i], sent[i])
          /\ Acts(r) /\ reqs[r].pc = "complete" =>
                LET sent == reqs[r].history IN
                /\ Len(sent) <= HistoryLimit
                /\ \A i \in 1 .. Len(sent) :
                      Length(sent[i].content) <= ContentLimit + MarkerLen]_vars

\* a turn on a conversation of more than 10 messages is about to call the
\* completion API with 10 of them, one cut at 8000 characters and one of
\* exactly 8000 characters
C7_Witness ==
    \E r \in Slots :
        LET sent == reqs[r].history IN
        /\ reqs[r].pc = "complete" /\ ~reqs[r].guest
        /\ Len(getMessagesByConversationId(reqs[r].conv)) > HistoryLimit
        /\ Len(sent) = HistoryLimit
        /\ \E i \in 1 .. Len(sent) :
              sent[i].content.marked /\ Length(sent[i].content) = ContentLimit + MarkerLen
        /\ \E i \in 1 .. Len(sent) :
              ~sent[i].content.marked /\ Length(sent[i].content) = ContentLimit

\* user uid has no stored completion key and the environment has none
NoCredential(uid) ==
    /\ ~env.together
    /\ \A k \in DOMAIN apiKeys :
          apiKeys[k].userId = uid => apiKeys[k].togetherApiKey = ""

\* C8: no step of a chat turn of a requester without a completion credential
\* creates a message, changes a conversation or changes a memory
C8_AbortedBeforePersistence ==
    [][\A r \in Slots :
          Acts(r) /\ reqs'[r].kind = "chat" /\ NoCredential(reqs'[r].sess) =>
             UNCHANGED << messages, conversations, users, memHeap >>]_vars

\* C9: the step in which the completion API answers with an error status or
\* without an answer ends the turn with 500 after that one call, and leaves
\* the stored messages, the user message of the turn among them, and the
\* memories as they are
C9_CompletionFailureTerminal ==
    [][\A r \in Slots :
          /\ Acts(r) /\ reqs[r].pc = "complete"
          /\ reqs'[r].completion \in {"http_error", "no_answer"}
          => /\ reqs'[r].pc = "done" /\ reqs'[r].status = 500
             /\ reqs'[r].calls = 1
             /\ reqs'[r].asstMsg = NoMsg
             /\ UNCHANGED << messages, users, memHeap >>]_vars

\* a turn of user 1 has ended with 500 on an answer without the answer field,
\* and its user message is stored
C9_Witness ==
    \E r \in Slots :
        /\ reqs[r].kind = "chat" /\ reqs[r].pc = "done" /\ reqs[r].status = 500
        /\ reqs[r].completion = "no_answer" /\ reqs[r].sess = 1 /\ reqs[r].calls = 1
        /\ \E m \in DOMAIN messages :
              /\ m > MaxStored + 2
              /\ messages[m].conversationId = reqs[r].conv
              /\ messages[m].role = "user" /\ messages[m].content = reqs[r].msg
        /\ \A m \in DOMAIN messages : m > MaxStored + 2 => messages[m].role = "user"

\* C10: the step in which the memory update fails answers the turn with 200
\* and the two messages of the turn, and leaves the stored messages as they are
C10_MemoryFailureSwallowed ==
    [][\A r \in Slots :
          /\ Acts(r) /\ reqs[r].pc \in {"mem_read", "mem_write"}
          /\ reqs'[r].memFailed
          => /\ reqs'[r].pc = "done" /\ reqs'[r].status = 200
             /\ reqs'[r].userMsg = reqs[r].userMsg /\ reqs'[r].userMsg.role = "user"
             /\ reqs'[r].asstMsg = reqs[r].asstMsg
             /\ reqs'[r].asstMsg.role = "assistant"
             /\ UNCHANGED messages]_vars

\* a turn whose memory update failed has been answered with 200, and its two
\* messages are stored
C10_Witness ==
    \E r \in Slots :
        /\ reqs[r].pc = "done" /\ reqs[r].memFailed /\ reqs[r].status = 200
        /\ getMessage(reqs[r].userMsg.id) = reqs[r].userMsg
        /\ getMessage(reqs[r].asstMsg.id) = reqs[r].asstMsg
        /\ reqs[r].userMsg.role = "user" /\ reqs[r].asstMsg.role = "assistant"

\* C19: no step changes a field of a stored message; a message disappears
\* only in the deleteConversation of its conversation, and a
\* deleteConversation that has removed the messages removes the conversation
C19_MessagesImmutable ==
    [][/\ \A m \in DOMAIN messages \cap DOMAIN messages' :
             messages'[m] = messages[m]
       /\ \A m \in DOMAIN messages \ DOMAIN messages' :
             \E r \in Slots :
                /\ Acts(r) /\ reqs[r].pc = "delete"
                /\ reqs[r].conv = messages[m].conversationId
       /\ \A r \in Slots :
             Acts(r) /\ reqs[r].pc = "delete_row" =>
                reqs[r].conv \notin DOMAIN conversations']_vars

\* the step of request r ends a createMessage
CreateMessageReturns(r) ==
    \/ backend = "mem" /\ DOMAIN messages' # DOMAIN messages
    \/ reqs[r].pc \in {"user_touch", "asst_touch"}

\* C20: a chat turn of a registered user creates messages in its own
\* conversation only, one at a time: the user message with the request text
\* when it stores it, the assistant message with the reply after the
\* completion call; a turn answered 200 has created these two, the user
\* message first; and when a createMessage returns, updatedAt of the
\* conversation is not earlier than the timestamp of any of its messages
C20_TurnAddsTwoRows ==
    [][\A r \in Slots :
          Acts(r) /\ reqs'[r].kind = "chat" /\ ~reqs'[r].guest =>
             LET q == reqs'[r]
                 created == DOMAIN messages' \ DOMAIN messages
             IN  /\ Cardinality(created) <= 1
                 /\ \A m \in created :
                       /\ messages'[m].conversationId = q.conv
                       /\ \/ /\ reqs[r].pc = "store_user"
                             /\ messages'[m].role = "user"
                             /\ messages'[m].content = q.msg
                          \/ /\ reqs[r].pc = "complete"
                             /\ messages'[m].role = "assistant"
                             /\ messages'[m].content = q.aiResponse
                 /\ q.pc = "done" /\ q.status = 200 =>
                       /\ q.userMsg.role = "user" /\ q.userMsg.content = q.msg
                       /\ q.asstMsg.role = "assistant"
                       /\ q.userMsg.conversationId = q.conv
                       /\ q.asstMsg.conversationId = q.conv
                       /\ q.userMsg.id < q.asstMsg.id
                 /\ CreateMessageReturns(r) /\ q.conv \in DOMAIN conversations' =>
                       \A m \in DOMAIN messages' :
                          messages'[m].conversationId = q.conv =>
                             messages'[m].timestamp <= conversations'[q.conv].updatedAt]_vars

\* a turn of user 1 has been answered 200; its two messages are the only new
\* ones and are stored in conversation 1, whose updatedAt is the latest time
C20_Witness ==
    \E r \in Slots :
        LET q == reqs[r] IN
        /\ q.kind = "chat" /\ q.pc = "done" /\ q.status = 200 /\ q.sess = 1
        /\ getMessage(q.userMsg.id) = q.userMsg
        /\ getMessage(q.asstMsg.id) = q.asstMsg
        /\ DOMAIN messages = 1 .. MaxStored + 4
        /\ Len(getMessagesByConversationId(1)) = MaxStored + 2
        /\ conversations[1].updatedAt >= q.asstMsg.timestamp
        /\ conversations[1].updatedAt > MaxStored + 1

\* the patterns in another order: rotated by k, and reversed
Rotated(patterns, k) ==
    [ i \in 1 .. Len(patterns) |-> patterns[((i - 1 + k) % Len(patterns)) + 1] ]

Reversed(patterns) ==
    [ i \in 1 .. Len(patterns) |-> patterns[Len(patterns) + 1 - i] ]

\* C17: a turn that has passed the search step made the search call exactly
\* when some pattern of the list matches its text; the text about the capital
\* of France matches, "please summarize this" does not; and the same answer
\* comes out with the patterns rotated or reversed and with the text in upper
\* or in lower case
C17_IntentIffPatternMatches ==
    \A r \in Slots :
        reqs[r].kind = "chat" /\ reqs[r].pc = "complete" =>
           LET text == Chars(reqs[r].msg)
               fired == reqs[r].search # "none"
               upper == [ i \in 1 .. Len(text) |-> ToUpperCase(text[i]) ]
               lower == [ i \in 1 .. Len(text) |-> ToLowerCase(text[i]) ]
           IN  /\ fired = (\E i \in 1 .. Len(searchPatterns) :
                             Test(searchPatterns[i], text))
               /\ reqs[r].msg.txt = "what is the capital of France" => fired
               /\ reqs[r].msg.txt = "please summarize this" => ~fired
               /\ \A k \in 1 .. Len(searchPatterns) - 1 :
                     SomeFrom(Rotated(searchPatterns, k), 1, text) = fired
               /\ SomeFrom(Reversed(searchPatterns), 1, text) = fired
               /\ SomeFrom(searchPatterns, 1, upper) = fired
               /\ SomeFrom(searchPatterns, 1, lower) = fired

\* two guest turns wait for their completion call: the one that asks for the
\* capital of France has made the search call, the one that asks for a
\* summary has not
C17_Witness ==
    \E r1, r2 \in Slots :
        /\ reqs[r1].pc = "complete" /\ reqs[r1].msg.txt = "what is the capital of France"
        /\ reqs[r1].search = "failed"
        /\ reqs[r2].pc = "complete" /\ reqs[r2].msg.txt = "please summarize this"
        /\ reqs[r2].search = "none"

\* the stored blob cannot be parsed into an object with a conversations array
Unparseable(blob) == blob.kind \in {"badstring", "noarray"}

\* C11: a turn of a user whose stored memory cannot be parsed goes on to the
\* completion call when it reads the memory for the system prompt, and its
\* memory update writes a blob that holds the entry of this turn only
C11_UnparseableMemoryDiscarded ==
    [][\A r \in Slots :
          Acts(r) /\ reqs[r].kind = "chat" =>
             LET q == reqs[r]
                 ref == getUser(q.sess).memory
             IN  /\ q.pc = "memory" /\ ref # 0 /\ Unparseable(memHeap[ref]) =>
                       reqs'[r].pc = "complete"
                 /\ q.pc = "mem_write" /\ q.memRef # 0 /\ Unparseable(memHeap[q.memRef])
                      /\ ~reqs'[r].memFailed =>
                       /\ reqs'[r].status = 200
                       /\ LET written == memHeap'[users'[q.sess].memory]
                          IN  /\ written.kind = "object"
                              /\ written.conversations =
                                    << MemoryEntry(q.msg, q.aiResponse, clock) >>]_vars

\* the step of request r holds the web search of its turn: a guest turn makes
\* it in its first step, a turn of a registered user after reading the memory
SearchStep(r) ==
    /\ reqs'[r].kind = "chat"
    /\ \/ Accepted(r) /\ reqs'[r].guest /\ reqs'[r].pc # "done"
       \/ Acts(r) /\ reqs[r].pc = "memory"

\* C12: when the text of a turn shows search intent and the search call fails,
\* the turn goes on to the completion call with no search results and no
\* answer set; the completion call is made; and the answer of the turn is
\* decided by the completion alone, as it is for a turn without search intent
C12_SearchFailureSkipped ==
    [][\A r \in Slots :
          /\ SearchStep(r) /\ detectWebSearchIntent(reqs'[r].msg) =>
                /\ reqs'[r].search = "failed"
                /\ reqs'[r].pc = "complete"
                /\ ~reqs'[r].webSearch
                /\ reqs'[r].status = 0 /\ reqs'[r].error = ""
                /\ reqs'[r].calls = 0
          /\ Acts(r) /\ reqs[r].kind = "chat" /\ reqs[r].pc = "complete" =>
                /\ reqs'[r].calls = 1
                /\ reqs'[r].search = reqs[r].search
          /\ Acts(r) /\ reqs'[r].kind = "chat" /\ reqs'[r].pc = "done" =>
                /\ reqs'[r].calls = 1
                /\ reqs'[r].status \in {200, 500}
                /\ reqs'[r].status = 200 <=>
                      reqs'[r].completion = "ok" /\ Truthy(reqs'[r].asstMsg.content)
                /\ reqs'[r].status = 500 =>
                      reqs'[r].error \in {"Failed to get response from AI model",
                                          "Invalid response format from AI model"}]_vars

\* user 1 asked "What Is x", the search call failed, and the turn has been
\* answered 200 after one completion call, while a guest turn with the same
\* text and a failed search waits for its completion call
C12_Witness ==
    \E r1, r2 \in Slots :
        /\ reqs[r1].kind = "chat" /\ reqs[r1].sess = 1 /\ reqs[r1].pc = "done"
        /\ reqs[r1].search = "failed" /\ reqs[r1].status = 200 /\ reqs[r1].calls = 1
        /\ detectWebSearchIntent(reqs[r1].msg)
        /\ reqs[r2].guest /\ reqs[r2].pc = "complete" /\ reqs[r2].search = "failed"
        /\ ~reqs[r2].webSearch

\* C16: a chat turn answered 200 carries a user message with exactly the text
\* of the request and an assistant message whose content is not empty, for a
\* guest as for a registered user; a turn whose completion gave no answer is
\* answered 500
C16_SuccessfulTurnShape ==
    \A r \in Slots :
        LET q == reqs[r] IN
        q.kind = "chat" /\ q.pc = "done" =>
           /\ q.status = 200 =>
                 /\ q.userMsg.role = "user"
                 /\ q.userMsg.content = q.msg
                 /\ q.asstMsg.role = "assistant"
                 /\ Length(q.asstMsg.content) > 0
                 /\ q.completion = "ok"
           /\ q.completion = "no_answer" => q.status = 500

\* a turn of user 1 and a turn of a guest have both been answered 200, and the
\* messages of the turn of user 1 are the stored ones
C16_Witness ==
    \E r1, r2 \in Slots :
        /\ reqs[r1].kind = "chat" /\ reqs[r1].sess = 1
        /\ reqs[r1].pc = "done" /\ reqs[r1].status = 200
        /\ getMessage(reqs[r1].userMsg.id).content = reqs[r1].msg
        /\ getMessage(reqs[r1].asstMsg.id) = reqs[r1].asstMsg
        /\ reqs[r2].kind = "chat" /\ reqs[r2].guest
        /\ reqs[r2].pc = "done" /\ reqs[r2].status = 200
        /\ reqs[r2].userMsg.content = reqs[r2].msg

\* C15: no user has two rows in api_keys
C15_OneApiKeyPerUser ==
    \A u \in UserIds : Cardinality(RowsOf(u)) <= 1

\* the row with every key that is present replaced by another value
OtherValues(row) ==
    [row EXCEPT !.togetherApiKey = IF HasKey(@) THEN "another-key" ELSE @,
                !.duckduckgoApiKey = IF HasKey(@) THEN "another-key" ELSE @]

\* C18: the answer of GET and of POST /api/api-keys carries the two fields
\* with true or false and nothing else of the row, and it is the answer that
\* the same row with other key values gets
C18_KeysNeverReturned ==
    [][\A r \in Slots :
          Acts(r) /\ reqs'[r].kind \in {"keys_get", "keys_save"}
                  /\ reqs'[r].pc = "done" =>
             LET q == reqs'[r]
                 rows == IF q.kind = "keys_get"
                         THEN getApiKeysByUserId(q.sess)
                         ELSE { apiKeys'[k] : k \in { j \in DOMAIN apiKeys' :
                                                        apiKeys'[j].userId = q.sess } }
             IN  IF q.status = 200
                 THEN /\ q.has.hasTogetherApiKey \in {"true", "false"}
                      /\ q.has.hasDuckduckgoApiKey \in {"true", "false"}
                      /\ \E row \in rows : q.has = SanitizedKeys(OtherValues(row))
                      /\ q.error = ""
                 ELSE q.has = IdleReq.has]_vars

\* two saves have been answered with the same body, both fields "true" for
\* the first, while the rows of the two users hold different keys; the row of
\* user 1 holds "key-a"
C18_Witness ==
    \E r1, r2 \in Slots :
        /\ reqs[r1].kind = "keys_save" /\ reqs[r1].pc = "done" /\ reqs[r1].status = 200
        /\ reqs[r2].kind = "keys_save" /\ reqs[r2].pc = "done" /\ reqs[r2].status = 200
        /\ reqs[r1].sess = 1 /\ reqs[r2].sess = 2
        /\ reqs[r1].has = reqs[r2].has
        /\ reqs[r1].has.hasTogetherApiKey = "true"
        /\ \E k1 \in RowsOf(1), k2 \in RowsOf(2) :
              /\ apiKeys[k1].togetherApiKey = "key-a"
              /\ apiKeys[k2].togetherApiKey \notin {"", "key-a"}

AuthKinds == {"register", "login", "legacy_register", "legacy_login"}

\* C13: a register request that creates a user is answered 201; a login that
\* is answered 401 has put no user into the session; a login with the right
\* password is answered 200; and no answer of a register or login request
\* has a password field
C13_NoPasswordInResponses ==
    \A r \in Slots :
        LET q == reqs[r] IN
        q.kind \in AuthKinds /\ q.pc = "done" =>
           /\ ~q.userBody.hasPassword
           /\ q.userBody.password = NoHash
           /\ q.status = 401 => q.session = 0
           /\ q.session # 0 =>
                 /\ q.status = (IF q.kind \in {"register", "legacy_register"}
                                THEN 201 ELSE 200)
                 /\ q.userBody.id = q.session

\* C14: no two users have the same username, no two the same non-empty
\* email; and a register request whose username or email a user already has
\* when it is accepted is answered 400
C14_UniqueUsers ==
    [][/\ \A k1, k2 \in DOMAIN users' :
             k1 # k2 =>
                /\ users'[k1].username # users'[k2].username
                /\ users'[k1].email # "" => users'[k1].email # users'[k2].email
       /\ \A r \in Slots :
             Acts(r) /\ reqs'[r].kind \in {"register", "legacy_register"}
                     /\ reqs'[r].pc = "done" /\ users' = users
                     /\ ( getUserByUsername(reqs'[r].form.username) # NoUser
                          \/ getUserByEmail(reqs'[r].form.email) # NoUser ) =>
                reqs'[r].status = 400]_vars

\* C21: the memory update of a turn writes the entries it read followed by
\* one entry for the turn, cut to the last 10: the new entry is the last one,
\* its topic the first 100 characters of the message and its response the
\* first 200 characters of the reply; the entries before it are the ones that
\* were read, in their order, without the oldest one when there were 10
C21_MemoryAppendFifo ==
    [][\A r \in Slots :
          Acts(r) /\ reqs[r].pc = "mem_write" /\ ~reqs'[r].memFailed =>
             LET q == reqs[r]
                 old == ExistingConversations(q.memRef)
                 new == memHeap'[users'[q.sess].memory].conversations
                 dropped == Len(old) + 1 - Len(new)
             IN  /\ Len(new) = Min(Len(old) + 1, MemoryLimit)
                 /\ new[Len(new)].topic = Str(q.msg.txt, Min(q.msg.len, TopicLimit))
                 /\ new[Len(new)].response =
                       Str(q.aiResponse.txt, Min(q.aiResponse.len, ResponseLimit))
                 /\ new[Len(new)].lastInteraction = clock
                 /\ dropped = (IF Len(old) = MemoryLimit THEN 1 ELSE 0)
                 /\ \A i \in 1 .. Len(new) - 1 : new[i] = old[i + dropped]]_vars

\* the memory of user 1 is full, its last entry has a topic of 100 characters
\* and a response of 200, and its first entry is the second of the entries at
\* the start
C21_Witness ==
    LET entries == memHeap[users[1].memory].conversations IN
    /\ Len(entries) = MemoryLimit
    /\ entries[MemoryLimit].topic.len = TopicLimit
    /\ entries[MemoryLimit].response.len = ResponseLimit
    /\ entries[1] = StoredMemory(MemoryLimit).conversations[2]
    /\ \E r \in Slots : reqs[r].pc = "done" /\ reqs[r].status = 200
                          /\ reqs[r].msg.len = TopicLimit + 1

\* the key that user uid has stored, "" when there is none
StoredKeyOf(uid) ==
    IF \E k \in DOMAIN apiKeys : apiKeys[k].userId = uid /\ apiKeys[k].togetherApiKey # ""
    THEN apiKeys[CHOOSE k \in DOMAIN apiKeys :
                    apiKeys[k].userId = uid /\ apiKeys[k].togetherApiKey # ""].togetherApiKey
    ELSE ""

EnvKey == IF env.together THEN "env-key" ELSE ""

\* C22: a registered turn goes on with the stored key of its user when there
\* is one and with the key of the environment otherwise; a guest turn goes on
\* with the key of the environment only; a turn without a key is answered 400
\* with the missing-key message; and a completion call is made only by a turn
\* that holds a key
C22_CredentialChoice ==
    [][\A r \in Slots :
          /\ Acts(r) /\ reqs[r].kind = "chat" /\ reqs[r].pc = "keys" =>
                LET chosen == IF StoredKeyOf(reqs[r].sess) # ""
                              THEN StoredKeyOf(reqs[r].sess) ELSE EnvKey
                IN  IF chosen = ""
                    THEN /\ reqs'[r].pc = "done" /\ reqs'[r].status = 400
                         /\ reqs'[r].error = "No Together AI API key found"
                         /\ reqs'[r].calls = 0
                    ELSE /\ reqs'[r].pc = "memory"
                         /\ reqs'[r].credential = chosen
          /\ Accepted(r) /\ reqs'[r].kind = "chat" /\ reqs'[r].guest =>
                IF EnvKey = ""
                THEN /\ reqs'[r].pc = "done" /\ reqs'[r].status = 400
                     /\ reqs'[r].error = "No API key available for guest users"
                     /\ reqs'[r].calls = 0
                ELSE /\ reqs'[r].pc = "complete"
                     /\ reqs'[r].credential = EnvKey
          /\ Acts(r) /\ reqs'[r].kind = "chat" /\ reqs'[r].calls > reqs[r].calls =>
                /\ reqs[r].credential # ""
                /\ reqs[r].guest => reqs[r].credential = EnvKey]_vars

\* the environment holds a key and user 1 has stored one: a turn of user 1
\* has made its completion call with the stored key, and a guest turn waits
\* for its call with the key of the environment
C22_Witness ==
    \E r1, r2 \in Slots :
        /\ env.together /\ StoredKeyOf(1) = "user-key"
        /\ reqs[r1].sess = 1 /\ reqs[r1].credential = "user-key"
        /\ reqs[r1].pc = "mem_read" /\ reqs[r1].calls = 1
        /\ reqs[r2].guest /\ reqs[r2].pc = "complete"
        /\ reqs[r2].credential = "env-key"

\* C28: a turn of a registered user whose text shows search intent and whose
\* internal call to /api/search was answered goes to the completion call
\* with the search results in its system prompt
C28_SearchReachesRegistered ==
    \A r \in Slots :
        /\ reqs[r].kind = "chat" /\ ~reqs[r].guest /\ reqs[r].pc = "complete"
        /\ detectWebSearchIntent(reqs[r].msg)
        /\ reqs[r].searchStatus # 0
        => /\ SearchOk(reqs[r].searchStatus)
           /\ reqs[r].search = "ok"
           /\ reqs[r].webSearch

RejectionErrors ==
    { "Invalid message data", "Conversation not found", "Access denied" }

\* C23: a chat request answered with the malformed-body 400, the 404 or the
\* 403 is answered in the step that accepts it, with storage as it was, no
\* completion call and no search call; and a registered request for a
\* conversation that is not stored or not its own is answered in that way
C23_RejectedTurnsLeaveStorage ==
    [][\A r \in Slots :
          /\ Acts(r) /\ reqs'[r].kind = "chat" /\ reqs'[r].pc = "done"
                /\ reqs'[r].error \in RejectionErrors =>
                /\ Accepted(r)
                /\ store' = store
                /\ reqs'[r].calls = 0
                /\ reqs'[r].search = "none" /\ ~reqs'[r].webSearch
                /\ reqs'[r].status =
                      (CASE reqs'[r].error = "Invalid message data" -> 400
                         [] reqs'[r].error = "Conversation not found" -> 404
                         [] reqs'[r].error = "Access denied" -> 403)
          /\ Accepted(r) /\ reqs'[r].kind = "chat" /\ ~reqs'[r].guest
                /\ reqs'[r].sess # 0 =>
                LET c == reqs'[r].conv
                    stored == c \in DOMAIN conversations
                IN  /\ ~stored => /\ reqs'[r].pc = "done"
                                  /\ reqs'[r].status \in {400, 404}
                    /\ stored /\ conversations[c].userId # reqs'[r].sess =>
                          /\ reqs'[r].pc = "done"
                          /\ reqs'[r].status \in {400, 403}]_vars

\* while a turn of one user waits for its completion, a request of the
\* other user for the same conversation has been answered 403
C23_Witness ==
    \E r1, r2 \in Slots :
        /\ reqs[r1].kind = "chat" /\ reqs[r1].pc = "done" /\ reqs[r1].status = 403
        /\ reqs[r1].error = "Access denied" /\ reqs[r1].calls = 0
        /\ reqs[r2].kind = "chat" /\ reqs[r2].pc = "complete" /\ ~reqs[r2].guest
        /\ reqs[r2].conv = reqs[r1].conv

\* the place of message id in the stored messages of conversation cid in
\* timestamp order, 0 when it is not among them
PlaceOf(id, cid) ==
    LET all == getMessagesByConversationId(cid)
    IN  IF \E k \in DOMAIN all : all[k].id = id
        THEN CHOOSE k \in DOMAIN all : all[k].id = id
        ELSE 0

\* C26: the history that a registered turn reads for the completion call
\* holds the user message that the turn has stored
C26_OwnMessageInHistory ==
    [][\A r \in Slots :
          Acts(r) /\ reqs[r].kind = "chat" /\ reqs[r].pc = "history" =>
             LET q == reqs[r]
                 h == reqs'[r].history
                 k == PlaceOf(q.userMsg.id, q.conv)
                 cut == Len(getMessagesByConversationId(q.conv)) - Len(h)
             IN  /\ k > cut
                 /\ h[k - cut] = [role |-> "user", content |-> TruncateContent(q.msg)]]_vars

\* the topics of the memory entries that user uid has stored
StoredTopics(uid) ==
    IF users[uid].memory = 0 \/ JsonParseThrows(memHeap[users[uid].memory]) THEN {}
    ELSE LET entries == ConversationsOf(memHeap[users[uid].memory])
         IN  { entries[i].topic : i \in DOMAIN entries }

\* C27: on DatabaseStorage, when two turns of one user with different texts
\* have both been answered 200 after a memory update that did not fail, the
\* memory of the user holds an entry with the topic of each of the two
C27_NoMemoryEntryLost ==
    backend = "db" =>
        \A r1, r2 \in Slots :
            /\ r1 # r2
            /\ \A r \in {r1, r2} :
                  /\ reqs[r].kind = "chat" /\ reqs[r].pc = "done"
                  /\ reqs[r].status = 200 /\ ~reqs[r].memFailed
                  /\ ~reqs[r].guest /\ reqs[r].sess = reqs[r1].sess
            /\ reqs[r1].msg # reqs[r2].msg
            => \A r \in {r1, r2} :
                  Substring(reqs[r].msg, TopicLimit) \in StoredTopics(reqs[r].sess)

\* C29: a save of API keys that carries the key of one provider and not that
\* of the other, and is answered 200, leaves the key of the other provider as
\* it was in every row of its user
C29_OmittedKeyUnchanged ==
    [][\A r \in Slots :
          Acts(r) /\ reqs'[r].kind = "keys_save" /\ reqs'[r].pc = "done"
                  /\ reqs'[r].status = 200 =>
             LET q == reqs'[r] IN
             \A k \in RowsOf(q.sess) :
                /\ q.keyBody.togetherApiKey = Absent
                      /\ q.keyBody.duckduckgoApiKey # Absent =>
                      apiKeys'[k].togetherApiKey = apiKeys[k].togetherApiKey
                /\ q.keyBody.duckduckgoApiKey = Absent
                      /\ q.keyBody.togetherApiKey # Absent =>
                      apiKeys'[k].duckduckgoApiKey = apiKeys[k].duckduckgoApiKey]_vars

\* the request of slot r, after the step, has the guest header and no session
SessionlessGuest(r) == reqs'[r].guest /\ reqs'[r].sess = 0

\* C30: a request with the guest header and no session is not answered 401
\* by the middleware; no step of it changes storage; and its answer carries
\* no stored conversation, no stored message, no user record, no API-key
\* status and no memory of a user in its prompt
C30_GuestGetsAndChangesNothing ==
    [][\A r \in Slots :
          Acts(r) /\ SessionlessGuest(r) =>
             LET q == reqs'[r] IN
             /\ q.kind # "list" => q.status # 401
             /\ store' = store
             /\ q.foundConv = 0 /\ q.found = << >> /\ q.listed = {}
             /\ q.userBody = IdleReq.userBody
             /\ q.has = IdleReq.has
             /\ q.promptMemory = 0 /\ q.memRef = 0
             /\ \A m \in DOMAIN messages' : messages'[m] \notin {q.userMsg, q.asstMsg}]_vars

\* a guest turn has been answered 200 and a guest request for conversation 1
\* has been answered 500, while conversation 1 and its messages are stored
C30_Witness ==
    \E r1, r2 \in Slots :
        /\ reqs[r1].kind = "chat" /\ reqs[r1].guest /\ reqs[r1].sess = 0
        /\ reqs[r1].pc = "done" /\ reqs[r1].status = 200
        /\ reqs[r2].kind = "get" /\ reqs[r2].guest /\ reqs[r2].sess = 0
        /\ reqs[r2].pc = "done" /\ reqs[r2].status = 500 /\ reqs[r2].conv = 1
        /\ 1 \in DOMAIN conversations
        /\ getMessagesByConversationId(1) # << >>

\* the calls of sendUserMessage that have not settled
InFlight == { r \in Slots : reqs[r].pc # "idle" }

\* how many messages of the list have the role, loading messages left out
RECURSIVE CountOf(_, _)
CountOf(s, role) ==
    IF s = << >> THEN 0
    ELSE (IF s[1].role = role /\ ~s[1].isLoading THEN 1 ELSE 0) + CountOf(Tail(s), role)

\* C24: when the only call of sendUserMessage in flight settles with an
\* answer of 200, the optimistic user message and the loading message at
\* the end of the list give way to one user message with the text of the
\* turn and, after it, the assistant message of the answer
C24_UserMessageOnce ==
    [][\A r \in Slots :
          /\ reqs[r].pc = "done" /\ reqs[r].status = 200
          /\ reqs'[r].pc = "idle" /\ InFlight = {r}
          => LET old == hook.messages
                 new == hook'.messages
                 n == Len(new)
             IN  /\ n = Len(old)
                 /\ SubSeq(new, 1, n - 2) = SubSeq(old, 1, n - 2)
                 /\ new[n - 1].role = "user" /\ new[n - 1].content = reqs[r].msg
                 /\ new[n].role = "assistant" /\ new[n].id = reqs[r].asstMsg.id
                 /\ ~new[n].isLoading
                 /\ CountOf(new, "user") = CountOf(old, "user")]_vars

\* C25: when every call of sendUserMessage has settled, the list holds no
\* loading message, and it holds an assistant message, the answer or the
\* error text, for every call made
C25_SettledCallsLeaveNoPlaceholder ==
    InFlight = {} =>
        /\ \A i \in DOMAIN hook.messages : ~hook.messages[i].isLoading
        /\ CountOf(hook.messages, "assistant") >= served

====
